---- MODULE Spec2Model ----
(***************************************************************************)
(* Model of the medical tender discovery pipeline: the organization        *)
(* reputation cache (org_cache.py), the quick scoring heuristics           *)
(* (classifier.py) and the staged discovery engine                         *)
(* (optimized_discovery.py).                                               *)
(*                                                                         *)
(* Python strings are TLA+ strings; wherever the code looks inside a       *)
(* string (substring tests, lower(), digit filtering, slicing) the model   *)
(* works on the string's characters, given by the table Str.               *)
(* Floats are exact rationals [num, den]; timestamps are clock ticks of    *)
(* half a day, so that timedelta.days is a real truncation.                *)
(***************************************************************************)
EXTENDS Integers, Sequences, FiniteSets, TLC

VARIABLES
  now,                    \* wall clock (datetime.now()), in ticks
  clock_steps,            \* number of clock advances so far (bounds the model)
  medical_orgs,           \* OrganizationCache.medical_orgs: cnpj -> CachedOrganization
  non_medical_orgs,       \* OrganizationCache.non_medical_orgs
  last_call,              \* the last cache operation, its argument and return value
  cache_file,             \* what the cache file on disk holds
  pc,                     \* where the discovery run stands
  config,                 \* ProcessingConfig of the engine
  tenders,                \* the records of the listing, by identity
  existing_control_numbers, \* the control numbers of the tenders table
  raw_tenders,            \* the list Stage 1 returned
  new_tenders,            \* the list deduplication returned, Stage 2's input
  annot,                  \* the keys the stages have added to each record
  stage2_log,             \* per record of Stage 2: the cache's answer and the verdict
  quick_filtered,         \* the list Stage 2 returned
  medical_orgs_cache,     \* OptimizedTenderDiscovery.medical_orgs_cache
  non_medical_orgs_cache, \* OptimizedTenderDiscovery.non_medical_orgs_cache
  confirmed,              \* Stage 3: confirmed
  needs_sampling,         \* Stage 3: needs_sampling
  task,                   \* Stage 3: where each sample_tender task stands, or how it ended
  results,                \* Stage 3: what each sample_tender task returned (0 is None)
  batch_start,            \* Stage 3: first position of the batch being gathered
  semaphore,              \* Stage 3: free slots of the sampling semaphore
  api_calls,              \* Stage 3: the api_calls counter
  metrics,                \* DiscoveryMetrics
  stage4,                 \* Stage 4: the tier being gathered, its tasks and counters
  processed,              \* Stage 4: processed
  invocations,            \* discover_medical_tenders_optimized calls on this engine
  time,                   \* time.time(), in ticks of SecondsPerTick seconds
  tender_cache,           \* OrganizationCache.tender_cache: key -> data, timestamp
  item_cache,             \* OrganizationCache.item_cache: key -> items, timestamp
  last_read,              \* the last call on the tender and item caches and what it returned
  pages_fetched,          \* Stage 1: the listing pages the fetch requested
  writes,                 \* Stage 3: the sampling tasks' writes, under the lock or not
  request_pc,             \* _make_request: where the call stands
  retries,                \* _make_request: retries
  attempts,               \* _make_request: the session.request calls of this call so far
  auth_token,             \* PNCPAPIClient.auth_token is set
  response,               \* _make_request: the status it returned (0 before it returns)
  slept                   \* _make_request: the seconds it has slept between attempts

cache_vars == <<now, clock_steps, medical_orgs, non_medical_orgs, last_call, cache_file>>
engine_vars == <<pc, config, tenders, annot, stage2_log, quick_filtered,
                 medical_orgs_cache, non_medical_orgs_cache, confirmed, needs_sampling,
                 task, results, batch_start, semaphore, api_calls, metrics>>
run_vars == <<existing_control_numbers, raw_tenders, new_tenders, stage4, processed,
              invocations>>
ttl_vars == <<time, tender_cache, item_cache, last_read>>
client_vars == <<request_pc, retries, attempts, auth_token, response, slept>>
vars == <<cache_vars, engine_vars, run_vars, ttl_vars, client_vars, pages_fetched, writes>>

-----------------------------------------------------------------------------
(* Bounds of the model *)

MaxClockSteps == 2
MaxTime == 3
MaxPages == 2
MaxAttempts == 5
MaxTenderCount == 2
MaxInvocations == 2
MaxRunTenders == 3
MaxSampled == 6
MaxHighValue == 11
MaxMediumValue == 6
MaxLowValue == 4

-----------------------------------------------------------------------------
(* Strings as sequences of characters *)

Str ==
  "educacao" :> <<"e", "d", "u", "c", "a", "c", "a", "o">> @@
  "educação" :> <<"e", "d", "u", "c", "a", "ç", "ã", "o">> @@
  "escola" :> <<"e", "s", "c", "o", "l", "a">> @@
  "ensino" :> <<"e", "n", "s", "i", "n", "o">> @@
  "transporte" :> <<"t", "r", "a", "n", "s", "p", "o", "r", "t", "e">> @@
  "onibus" :> <<"o", "n", "i", "b", "u", "s">> @@
  "ônibus" :> <<"ô", "n", "i", "b", "u", "s">> @@
  "veiculo" :> <<"v", "e", "i", "c", "u", "l", "o">> @@
  "veículo" :> <<"v", "e", "í", "c", "u", "l", "o">> @@
  "obras" :> <<"o", "b", "r", "a", "s">> @@
  "pavimentacao" :> <<"p", "a", "v", "i", "m", "e", "n", "t", "a", "c", "a", "o">> @@
  "pavimentação" :> <<"p", "a", "v", "i", "m", "e", "n", "t", "a", "ç", "ã", "o">> @@
  "asfalto" :> <<"a", "s", "f", "a", "l", "t", "o">> @@
  "saneamento" :> <<"s", "a", "n", "e", "a", "m", "e", "n", "t", "o">> @@
  "esgoto" :> <<"e", "s", "g", "o", "t", "o">> @@
  "água" :> <<"á", "g", "u", "a">> @@
  "agua" :> <<"a", "g", "u", "a">> @@
  "iluminacao" :> <<"i", "l", "u", "m", "i", "n", "a", "c", "a", "o">> @@
  "iluminação" :> <<"i", "l", "u", "m", "i", "n", "a", "ç", "ã", "o">> @@
  "luminaria" :> <<"l", "u", "m", "i", "n", "a", "r", "i", "a">> @@
  "luminária" :> <<"l", "u", "m", "i", "n", "á", "r", "i", "a">> @@
  "informatica" :> <<"i", "n", "f", "o", "r", "m", "a", "t", "i", "c", "a">> @@
  "informática" :> <<"i", "n", "f", "o", "r", "m", "á", "t", "i", "c", "a">> @@
  "computador" :> <<"c", "o", "m", "p", "u", "t", "a", "d", "o", "r">> @@
  "notebook" :> <<"n", "o", "t", "e", "b", "o", "o", "k">> @@
  "mobiliario escolar" :> <<"m", "o", "b", "i", "l", "i", "a", "r", "i", "o", " ", "e", "s", "c", "o", "l", "a", "r">> @@
  "mobiliário escolar" :> <<"m", "o", "b", "i", "l", "i", "á", "r", "i", "o", " ", "e", "s", "c", "o", "l", "a", "r">> @@
  "merenda" :> <<"m", "e", "r", "e", "n", "d", "a">> @@
  "alimentacao escolar" :> <<"a", "l", "i", "m", "e", "n", "t", "a", "c", "a", "o", " ", "e", "s", "c", "o", "l", "a", "r">> @@
  "alimentação escolar" :> <<"a", "l", "i", "m", "e", "n", "t", "a", "ç", "ã", "o", " ", "e", "s", "c", "o", "l", "a", "r">> @@
  "uniforme escolar" :> <<"u", "n", "i", "f", "o", "r", "m", "e", " ", "e", "s", "c", "o", "l", "a", "r">> @@
  "fardamento" :> <<"f", "a", "r", "d", "a", "m", "e", "n", "t", "o">> @@
  "combustivel" :> <<"c", "o", "m", "b", "u", "s", "t", "i", "v", "e", "l">> @@
  "combustível" :> <<"c", "o", "m", "b", "u", "s", "t", "í", "v", "e", "l">> @@
  "gasolina" :> <<"g", "a", "s", "o", "l", "i", "n", "a">> @@
  "diesel" :> <<"d", "i", "e", "s", "e", "l">> @@
  "material de limpeza" :> <<"m", "a", "t", "e", "r", "i", "a", "l", " ", "d", "e", " ", "l", "i", "m", "p", "e", "z", "a">> @@
  "produto de limpeza" :> <<"p", "r", "o", "d", "u", "t", "o", " ", "d", "e", " ", "l", "i", "m", "p", "e", "z", "a">> @@
  "hospital" :> <<"h", "o", "s", "p", "i", "t", "a", "l">> @@
  "saude" :> <<"s", "a", "u", "d", "e">> @@
  "saúde" :> <<"s", "a", "ú", "d", "e">> @@
  "sus" :> <<"s", "u", "s">> @@
  "clinica" :> <<"c", "l", "i", "n", "i", "c", "a">> @@
  "clínica" :> <<"c", "l", "í", "n", "i", "c", "a">> @@
  "santa casa" :> <<"s", "a", "n", "t", "a", " ", "c", "a", "s", "a">> @@
  "upa" :> <<"u", "p", "a">> @@
  "samu" :> <<"s", "a", "m", "u">> @@
  "hemocentro" :> <<"h", "e", "m", "o", "c", "e", "n", "t", "r", "o">> @@
  "hemoderivados" :> <<"h", "e", "m", "o", "d", "e", "r", "i", "v", "a", "d", "o", "s">> @@
  "maternidade" :> <<"m", "a", "t", "e", "r", "n", "i", "d", "a", "d", "e">> @@
  "policlinica" :> <<"p", "o", "l", "i", "c", "l", "i", "n", "i", "c", "a">> @@
  "policlínica" :> <<"p", "o", "l", "i", "c", "l", "í", "n", "i", "c", "a">> @@
  "pronto socorro" :> <<"p", "r", "o", "n", "t", "o", " ", "s", "o", "c", "o", "r", "r", "o">> @@
  "pronto-socorro" :> <<"p", "r", "o", "n", "t", "o", "-", "s", "o", "c", "o", "r", "r", "o">> @@
  "ambulatorio" :> <<"a", "m", "b", "u", "l", "a", "t", "o", "r", "i", "o">> @@
  "ambulatório" :> <<"a", "m", "b", "u", "l", "a", "t", "ó", "r", "i", "o">> @@
  "posto de saude" :> <<"p", "o", "s", "t", "o", " ", "d", "e", " ", "s", "a", "u", "d", "e">> @@
  "posto de saúde" :> <<"p", "o", "s", "t", "o", " ", "d", "e", " ", "s", "a", "ú", "d", "e">> @@
  "vigilancia sanitaria" :> <<"v", "i", "g", "i", "l", "a", "n", "c", "i", "a", " ", "s", "a", "n", "i", "t", "a", "r", "i", "a">> @@
  "vigilância sanitária" :> <<"v", "i", "g", "i", "l", "â", "n", "c", "i", "a", " ", "s", "a", "n", "i", "t", "á", "r", "i", "a">> @@
  "medicamento" :> <<"m", "e", "d", "i", "c", "a", "m", "e", "n", "t", "o">> @@
  "medico" :> <<"m", "e", "d", "i", "c", "o">> @@
  "médico" :> <<"m", "é", "d", "i", "c", "o">> @@
  "hospitalar" :> <<"h", "o", "s", "p", "i", "t", "a", "l", "a", "r">> @@
  "cirurgico" :> <<"c", "i", "r", "u", "r", "g", "i", "c", "o">> @@
  "cirúrgico" :> <<"c", "i", "r", "ú", "r", "g", "i", "c", "o">> @@
  "laboratorio" :> <<"l", "a", "b", "o", "r", "a", "t", "o", "r", "i", "o">> @@
  "laboratório" :> <<"l", "a", "b", "o", "r", "a", "t", "ó", "r", "i", "o">> @@
  "curativo" :> <<"c", "u", "r", "a", "t", "i", "v", "o">> @@
  "seringa" :> <<"s", "e", "r", "i", "n", "g", "a">> @@
  "cateter" :> <<"c", "a", "t", "e", "t", "e", "r">> @@
  "equipo" :> <<"e", "q", "u", "i", "p", "o">> @@
  "material penso" :> <<"m", "a", "t", "e", "r", "i", "a", "l", " ", "p", "e", "n", "s", "o">> @@
  "material médico" :> <<"m", "a", "t", "e", "r", "i", "a", "l", " ", "m", "é", "d", "i", "c", "o">> @@
  "material hospitalar" :> <<"m", "a", "t", "e", "r", "i", "a", "l", " ", "h", "o", "s", "p", "i", "t", "a", "l", "a", "r">> @@
  "insumo médico" :> <<"i", "n", "s", "u", "m", "o", " ", "m", "é", "d", "i", "c", "o">> @@
  "equipamento médico" :> <<"e", "q", "u", "i", "p", "a", "m", "e", "n", "t", "o", " ", "m", "é", "d", "i", "c", "o">> @@
  "gaze" :> <<"g", "a", "z", "e">> @@
  "luva" :> <<"l", "u", "v", "a">> @@
  "máscara" :> <<"m", "á", "s", "c", "a", "r", "a">> @@
  "mascara" :> <<"m", "a", "s", "c", "a", "r", "a">> @@
  "remedio" :> <<"r", "e", "m", "e", "d", "i", "o">> @@
  "remédio" :> <<"r", "e", "m", "é", "d", "i", "o">> @@
  "farmaco" :> <<"f", "a", "r", "m", "a", "c", "o">> @@
  "fármaco" :> <<"f", "á", "r", "m", "a", "c", "o">> @@
  "cirurgia" :> <<"c", "i", "r", "u", "r", "g", "i", "a">> @@
  "exame" :> <<"e", "x", "a", "m", "e">> @@
  "diagnostico" :> <<"d", "i", "a", "g", "n", "o", "s", "t", "i", "c", "o">> @@
  "diagnóstico" :> <<"d", "i", "a", "g", "n", "ó", "s", "t", "i", "c", "o">> @@
  "tratamento" :> <<"t", "r", "a", "t", "a", "m", "e", "n", "t", "o">> @@
  "terapia" :> <<"t", "e", "r", "a", "p", "i", "a">> @@
  "ambulancia" :> <<"a", "m", "b", "u", "l", "a", "n", "c", "i", "a">> @@
  "ambulância" :> <<"a", "m", "b", "u", "l", "â", "n", "c", "i", "a">> @@
  "insumo hospitalar" :> <<"i", "n", "s", "u", "m", "o", " ", "h", "o", "s", "p", "i", "t", "a", "l", "a", "r">> @@
  "material cirurgico" :> <<"m", "a", "t", "e", "r", "i", "a", "l", " ", "c", "i", "r", "u", "r", "g", "i", "c", "o">> @@
  "material cirúrgico" :> <<"m", "a", "t", "e", "r", "i", "a", "l", " ", "c", "i", "r", "ú", "r", "g", "i", "c", "o">> @@
  "uti" :> <<"u", "t", "i">> @@
  "centro cirurgico" :> <<"c", "e", "n", "t", "r", "o", " ", "c", "i", "r", "u", "r", "g", "i", "c", "o">> @@
  "centro cirúrgico" :> <<"c", "e", "n", "t", "r", "o", " ", "c", "i", "r", "ú", "r", "g", "i", "c", "o">> @@
  "radiologia" :> <<"r", "a", "d", "i", "o", "l", "o", "g", "i", "a">> @@
  "tomografia" :> <<"t", "o", "m", "o", "g", "r", "a", "f", "i", "a">> @@
  "raio-x" :> <<"r", "a", "i", "o", "-", "x">> @@
  "anestesia" :> <<"a", "n", "e", "s", "t", "e", "s", "i", "a">> @@
  "anestésico" :> <<"a", "n", "e", "s", "t", "é", "s", "i", "c", "o">> @@
  "agulha" :> <<"a", "g", "u", "l", "h", "a">> @@
  "esteril" :> <<"e", "s", "t", "e", "r", "i", "l">> @@
  "estéril" :> <<"e", "s", "t", "é", "r", "i", "l">> @@
  "catmat" :> <<"c", "a", "t", "m", "a", "t">> @@
  "br" :> <<"b", "r">> @@
  "código" :> <<"c", "ó", "d", "i", "g", "o">> @@
  "classe" :> <<"c", "l", "a", "s", "s", "e">> @@
  "classf" :> <<"c", "l", "a", "s", "s", "f">> @@
  "classificação" :> <<"c", "l", "a", "s", "s", "i", "f", "i", "c", "a", "ç", "ã", "o">> @@
  "65" :> <<"6", "5">> @@
  "26989715" :> <<"2", "6", "9", "8", "9", "7", "1", "5">> @@
  "00394544" :> <<"0", "0", "3", "9", "4", "5", "4", "4">> @@
  "33781055" :> <<"3", "3", "7", "8", "1", "0", "5", "5">> @@
  "46374500" :> <<"4", "6", "3", "7", "4", "5", "0", "0">> @@
  "46392130" :> <<"4", "6", "3", "9", "2", "1", "3", "0">> @@
  "60742616" :> <<"6", "0", "7", "4", "2", "6", "1", "6">> @@
  "61599908" :> <<"6", "1", "5", "9", "9", "9", "0", "8">> @@
  "42498717" :> <<"4", "2", "4", "9", "8", "7", "1", "7">> @@
  "28481581" :> <<"2", "8", "4", "8", "1", "5", "8", "1">> @@
  "46.374.500/0001-19" :> <<"4", "6", ".", "3", "7", "4", ".", "5", "0", "0", "/", "0", "0", "0", "1", "-", "1", "9">> @@
  "46374500000119" :> <<"4", "6", "3", "7", "4", "5", "0", "0", "0", "0", "0", "1", "1", "9">> @@
  "12.345.678/0001-99" :> <<"1", "2", ".", "3", "4", "5", ".", "6", "7", "8", "/", "0", "0", "0", "1", "-", "9", "9">> @@
  "12345678000199" :> <<"1", "2", "3", "4", "5", "6", "7", "8", "0", "0", "0", "1", "9", "9">> @@
  "12345678" :> <<"1", "2", "3", "4", "5", "6", "7", "8">> @@
  "" :> <<>> @@
  "Hospital das Clínicas" :> <<"H", "o", "s", "p", "i", "t", "a", "l", " ", "d", "a", "s", " ", "C", "l", "í", "n", "i", "c", "a", "s">> @@
  "Prefeitura Municipal" :> <<"P", "r", "e", "f", "e", "i", "t", "u", "r", "a", " ", "M", "u", "n", "i", "c", "i", "p", "a", "l">> @@
  "Secretaria de Educação" :> <<"S", "e", "c", "r", "e", "t", "a", "r", "i", "a", " ", "d", "e", " ", "E", "d", "u", "c", "a", "ç", "ã", "o">> @@
  "Santa Casa de Saúde" :> <<"S", "a", "n", "t", "a", " ", "C", "a", "s", "a", " ", "d", "e", " ", "S", "a", "ú", "d", "e">> @@
  "Aquisição de gaze e luva" :> <<"A", "q", "u", "i", "s", "i", "ç", "ã", "o", " ", "d", "e", " ", "g", "a", "z", "e", " ", "e", " ", "l", "u", "v", "a">> @@
  "Aquisição de material hospitalar e medicamento" :> <<"A", "q", "u", "i", "s", "i", "ç", "ã", "o", " ", "d", "e", " ", "m", "a", "t", "e", "r", "i", "a", "l", " ", "h", "o", "s", "p", "i", "t", "a", "l", "a", "r", " ", "e", " ", "m", "e", "d", "i", "c", "a", "m", "e", "n", "t", "o">> @@
  "Seringa e cateter" :> <<"S", "e", "r", "i", "n", "g", "a", " ", "e", " ", "c", "a", "t", "e", "t", "e", "r">> @@
  "Seringa" :> <<"S", "e", "r", "i", "n", "g", "a">> @@
  "Transporte escolar e combustível" :> <<"T", "r", "a", "n", "s", "p", "o", "r", "t", "e", " ", "e", "s", "c", "o", "l", "a", "r", " ", "e", " ", "c", "o", "m", "b", "u", "s", "t", "í", "v", "e", "l">> @@
  "SERINGA DESCARTAVEL CATMAT 651535" :> <<"S", "E", "R", "I", "N", "G", "A", " ", "D", "E", "S", "C", "A", "R", "T", "A", "V", "E", "L", " ", "C", "A", "T", "M", "A", "T", " ", "6", "5", "1", "5", "3", "5">> @@
  "LUVA DE PROCEDIMENTO" :> <<"L", "U", "V", "A", " ", "D", "E", " ", "P", "R", "O", "C", "E", "D", "I", "M", "E", "N", "T", "O">> @@
  "PAPEL SULFITE A4" :> <<"P", "A", "P", "E", "L", " ", "S", "U", "L", "F", "I", "T", "E", " ", "A", "4">> @@
  "Serviços gerais" :> <<"S", "e", "r", "v", "i", "ç", "o", "s", " ", "g", "e", "r", "a", "i", "s">> @@
  "org_history" :> <<"o", "r", "g", "_", "h", "i", "s", "t", "o", "r", "y">> @@
  "score+keywords" :> <<"s", "c", "o", "r", "e", "+", "k", "e", "y", "w", "o", "r", "d", "s">> @@
  "score=" :> <<"s", "c", "o", "r", "e", "=">> @@
  ", keywords=" :> <<",", " ", "k", "e", "y", "w", "o", "r", "d", "s", "=">>

Digits == {"0", "1", "2", "3", "4", "5", "6", "7", "8", "9"}

UpperToLower ==
  "A" :> "a" @@ "B" :> "b" @@ "C" :> "c" @@ "D" :> "d" @@ "E" :> "e" @@
  "F" :> "f" @@ "G" :> "g" @@ "H" :> "h" @@ "I" :> "i" @@ "J" :> "j" @@
  "K" :> "k" @@ "L" :> "l" @@ "M" :> "m" @@ "N" :> "n" @@ "O" :> "o" @@
  "P" :> "p" @@ "Q" :> "q" @@ "R" :> "r" @@ "S" :> "s" @@ "T" :> "t" @@
  "U" :> "u" @@ "V" :> "v" @@ "W" :> "w" @@ "X" :> "x" @@ "Y" :> "y" @@
  "Z" :> "z" @@ "Á" :> "á" @@ "É" :> "é" @@ "Í" :> "í" @@ "Ó" :> "ó" @@
  "Ú" :> "ú" @@ "Â" :> "â" @@ "Ê" :> "ê" @@ "Ô" :> "ô" @@ "Ã" :> "ã" @@
  "Õ" :> "õ" @@ "Ç" :> "ç"

\* str.lower() on a sequence of characters
Lower(cs) ==
  [i \in 1..Len(cs) |-> IF cs[i] \in DOMAIN UpperToLower THEN UpperToLower[cs[i]] ELSE cs[i]]

\* Python's  sub in s  on sequences of characters
IsSubstring(sub, s) ==
  \E i \in 1..(Len(s) - Len(sub) + 1) : SubSeq(s, i, i + Len(sub) - 1) = sub

\* the string whose characters are cs
ToStr(cs) == CHOOSE s \in DOMAIN Str : Str[s] = cs

IsDigitChar(c) == c \in Digits

-----------------------------------------------------------------------------
(* Rationals, for the float confidences *)

Rat(n) == [num |-> n, den |-> 1]
RatGT(a, b) == a.num * b.den > b.num * a.den
\* int(x) for x >= 0
IntOf(a) == a.num \div a.den

-----------------------------------------------------------------------------
(* OrganizationCache *)

TicksPerDay == 2
cache_max_age_days == 30

\* known_medical_cnpjs: the seed table, keyed by the first 8 digits
known_medical_cnpjs ==
  {"26989715", "00394544", "33781055", "46374500", "46392130",
   "60742616", "61599908", "42498717", "28481581"}

\* the identifiers callers pass in, formatted and bare
RawCnpjs == {"46.374.500/0001-19", "46374500000119", "12.345.678/0001-99"}

\* confidences callers record: 20.0 and 85.5
RecordedConfidences == {Rat(20), [num |-> 171, den |-> 2]}

OrgNames == {"Hospital das Clínicas"}
StateCodes == {"SP"}

\* clock advances: half a day, and thirty days and a half
ClockAdvances == {1, 61}

\* get_medical_orgs_by_state, as a set
get_medical_orgs_by_state(orgs, state_code) ==
  {orgs[k].cnpj : k \in {x \in DOMAIN orgs : orgs[x].state_code = state_code}}

_normalize_cnpj(cnpj) ==
  IF cnpj = "" THEN "" ELSE ToStr(SelectSeq(Str[cnpj], IsDigitChar))

\* cnpj_clean[:8]
CnpjPrefix(cnpj_clean) ==
  LET cs == Str[cnpj_clean]
  IN  ToStr(SubSeq(cs, 1, IF Len(cs) < 8 THEN Len(cs) ELSE 8))

\* (datetime.now() - last_updated).days
AgeDays(last_updated, t) == (t - last_updated) \div TicksPerDay

NoResult == [cached |-> FALSE, is_medical |-> FALSE, confidence |-> Rat(0)]
Result(is_medical, confidence) ==
  [cached |-> TRUE, is_medical |-> is_medical, confidence |-> confidence]

\* the map without the key k
MapRemove(m, k) == [x \in DOMAIN m \ {k} |-> m[x]]
\* the map with k bound to v
MapPut(m, k, v) == [x \in DOMAIN m \cup {k} |-> IF x = k THEN v ELSE m[x]]

EmptyMap == [x \in {} |-> NoResult]

\* is_cached_medical_org: the value it returns
LookupResult(orgs, non_medical, t, cnpj) ==
  LET cnpj_clean == _normalize_cnpj(cnpj)
  IN  IF cnpj_clean \in DOMAIN orgs
      THEN IF AgeDays(orgs[cnpj_clean].last_updated, t) <= cache_max_age_days
           THEN Result(TRUE, orgs[cnpj_clean].medical_confidence)
           ELSE NoResult
      ELSE IF cnpj_clean \in non_medical
           THEN Result(FALSE, Rat(90))
           ELSE IF CnpjPrefix(cnpj_clean) \in known_medical_cnpjs
                THEN Result(TRUE, Rat(95))
                ELSE NoResult

\* is_cached_medical_org: the medical map it leaves behind
LookupEvict(orgs, t, cnpj) ==
  LET cnpj_clean == _normalize_cnpj(cnpj)
  IN  IF /\ cnpj_clean \in DOMAIN orgs
         /\ ~(AgeDays(orgs[cnpj_clean].last_updated, t) <= cache_max_age_days)
      THEN MapRemove(orgs, cnpj_clean)
      ELSE orgs

CachedOrganization(cnpj_clean, name, state_code, medical_confidence, t) ==
  [cnpj |-> cnpj_clean, name |-> name, state_code |-> state_code,
   is_medical |-> TRUE, medical_confidence |-> medical_confidence,
   last_updated |-> t, tender_count |-> 1]

Call(op, cnpj, result) == [op |-> op, cnpj |-> cnpj, result |-> result]

is_cached_medical_org(cnpj) ==
  /\ medical_orgs' = LookupEvict(medical_orgs, now, cnpj)
  /\ last_call' = Call("is_cached_medical_org", cnpj,
                       LookupResult(medical_orgs, non_medical_orgs, now, cnpj))
  /\ UNCHANGED <<now, clock_steps, non_medical_orgs, cache_file, engine_vars, run_vars,
                 ttl_vars, client_vars, pages_fetched, writes>>

add_medical_organization(cnpj, name, state_code, medical_confidence) ==
  /\ medical_orgs' = MapPut(medical_orgs, _normalize_cnpj(cnpj),
        CachedOrganization(_normalize_cnpj(cnpj), name, state_code, medical_confidence, now))
  /\ last_call' = Call("add_medical_organization", cnpj, NoResult)
  /\ UNCHANGED <<now, clock_steps, non_medical_orgs, cache_file, engine_vars, run_vars,
                 ttl_vars, client_vars, pages_fetched, writes>>

add_non_medical_organization(cnpj) ==
  /\ non_medical_orgs' = non_medical_orgs \cup {_normalize_cnpj(cnpj)}
  /\ last_call' = Call("add_non_medical_organization", cnpj, NoResult)
  /\ UNCHANGED <<now, clock_steps, medical_orgs, cache_file, engine_vars, run_vars, ttl_vars,
                 client_vars, pages_fetched, writes>>

increment_tender_count(cnpj) ==
  LET cnpj_clean == _normalize_cnpj(cnpj)
  IN  /\ cnpj_clean \in DOMAIN medical_orgs => medical_orgs[cnpj_clean].tender_count < MaxTenderCount
      /\ medical_orgs' =
           IF cnpj_clean \in DOMAIN medical_orgs
           THEN [medical_orgs EXCEPT ![cnpj_clean].tender_count = @ + 1]
           ELSE medical_orgs
      /\ last_call' = Call("increment_tender_count", cnpj, NoResult)
      /\ UNCHANGED <<now, clock_steps, non_medical_orgs, cache_file, engine_vars, run_vars,
                     ttl_vars, client_vars, pages_fetched, writes>>

\* clear_expired_entries: last_updated < datetime.now() - timedelta(days=30)
clear_expired_entries ==
  /\ medical_orgs' =
       [c \in {k \in DOMAIN medical_orgs :
                 ~(medical_orgs[k].last_updated < now - cache_max_age_days * TicksPerDay)}
          |-> medical_orgs[c]]
  /\ last_call' = Call("clear_expired_entries", "", NoResult)
  /\ UNCHANGED <<now, clock_steps, non_medical_orgs, cache_file, engine_vars, run_vars,
                 ttl_vars, client_vars, pages_fetched, writes>>

\* the cache file: missing, unreadable, or the JSON document save_cache wrote
NoFile == [exists |-> FALSE, readable |-> FALSE, medical_orgs |-> <<>>, non_medical_orgs |-> {}]
DamagedFile == [exists |-> TRUE, readable |-> FALSE, medical_orgs |-> <<>>, non_medical_orgs |-> {}]

\* dataclasses.asdict(org), as json.dump writes it
asdict(org) ==
  [cnpj |-> org.cnpj, name |-> org.name, state_code |-> org.state_code,
   is_medical |-> org.is_medical, medical_confidence |-> org.medical_confidence,
   last_updated |-> org.last_updated, tender_count |-> org.tender_count]

\* a constructor call that leaves tender_count at the dataclass default
FromDict_DefaultCount(org_dict) ==
  [cnpj |-> org_dict.cnpj, name |-> org_dict.name, state_code |-> org_dict.state_code,
   is_medical |-> org_dict.is_medical, medical_confidence |-> org_dict.medical_confidence,
   last_updated |-> org_dict.last_updated, tender_count |-> 0]

\* CachedOrganization(**org_dict)
FromDict(org_dict) ==
  [cnpj |-> org_dict.cnpj, name |-> org_dict.name, state_code |-> org_dict.state_code,
   is_medical |-> org_dict.is_medical, medical_confidence |-> org_dict.medical_confidence,
   last_updated |-> org_dict.last_updated, tender_count |-> org_dict.tender_count]

\* a load that files every entry under its organization's name
LoadedOrgs_ByName(medical_orgs_data) ==
  [n \in {medical_orgs_data[k].name : k \in DOMAIN medical_orgs_data} |->
     FromDict(medical_orgs_data[CHOOSE k \in DOMAIN medical_orgs_data :
                                  medical_orgs_data[k].name = n])]

\* for cnpj, org_dict in medical_orgs_data.items(): the entries the loop stores
LoadedOrgs(medical_orgs_data) ==
  [cnpj \in DOMAIN medical_orgs_data |-> FromDict(medical_orgs_data[cnpj])]

\* the map m with the bindings of update put over it
MapUpdate(m, update) ==
  [x \in DOMAIN m \cup DOMAIN update |-> IF x \in DOMAIN update THEN update[x] ELSE m[x]]

save_cache ==
  /\ cache_file' = [exists |-> TRUE, readable |-> TRUE,
                    medical_orgs |-> [cnpj \in DOMAIN medical_orgs |-> asdict(medical_orgs[cnpj])],
                    non_medical_orgs |-> non_medical_orgs]
  /\ last_call' = Call("save_cache", "", NoResult)
  /\ UNCHANGED <<now, clock_steps, medical_orgs, non_medical_orgs, engine_vars, run_vars,
                 ttl_vars, client_vars, pages_fetched, writes>>

\* the write fails after open() has truncated the file; the error is logged
save_cache_fails ==
  /\ cache_file' = DamagedFile
  /\ last_call' = Call("save_cache", "", NoResult)
  /\ UNCHANGED <<now, clock_steps, medical_orgs, non_medical_orgs, engine_vars, run_vars,
                 ttl_vars, client_vars, pages_fetched, writes>>

load_cache ==
  /\ IF ~cache_file.exists
     THEN UNCHANGED <<medical_orgs, non_medical_orgs>>
     ELSE IF cache_file.readable
          THEN /\ medical_orgs' = MapUpdate(medical_orgs, LoadedOrgs(cache_file.medical_orgs))
               /\ non_medical_orgs' = cache_file.non_medical_orgs
          ELSE /\ medical_orgs' = EmptyMap
               /\ non_medical_orgs' = {}
  /\ last_call' = Call("load_cache", "", NoResult)
  /\ UNCHANGED <<now, clock_steps, cache_file, engine_vars, run_vars, ttl_vars, client_vars,
                 pages_fetched, writes>>

\* OrganizationCache(cache_file): a new cache over the same file; the
\* constructor starts from empty maps and calls load_cache
__init__ ==
  /\ IF cache_file.exists /\ cache_file.readable
     THEN /\ medical_orgs' = MapUpdate(EmptyMap, LoadedOrgs(cache_file.medical_orgs))
          /\ non_medical_orgs' = cache_file.non_medical_orgs
     ELSE /\ medical_orgs' = EmptyMap
          /\ non_medical_orgs' = {}
  /\ last_call' = Call("__init__", "", NoResult)
  /\ UNCHANGED <<now, clock_steps, cache_file, engine_vars, run_vars, ttl_vars, client_vars,
                 pages_fetched, writes>>

-----------------------------------------------------------------------------
(* The API client's request loop *)

\* APIConfig.MAX_RETRIES and APIConfig.RETRY_DELAY (seconds)
MAX_RETRIES == 3
RETRY_DELAY == 1

Statuses == {200, 401, 429, 500}

RECURSIVE Pow2(_)
Pow2(n) == IF n = 0 THEN 1 ELSE 2 * Pow2(n - 1)

\* _make_request returns (status, data)
Return(status) ==
  /\ request_pc' = "returned"
  /\ response' = status

\* min(2 ** retries * RETRY_DELAY, 60)
RateLimitWait(r) == IF Pow2(r) * RETRY_DELAY < 60 THEN Pow2(r) * RETRY_DELAY ELSE 60

\* the except clause of the loop: count the retry, give up with 500 at
\* MAX_RETRIES, else sleep 2 ** retries * RETRY_DELAY and go round again
ExceptClause ==
  /\ retries' = retries + 1
  /\ IF retries + 1 >= MAX_RETRIES
     THEN /\ Return(500)
          /\ UNCHANGED slept
     ELSE /\ slept' = slept + Pow2(retries + 1) * RETRY_DELAY
          /\ UNCHANGED <<request_pc, response>>

\* the caller logs in before a request (get_tender_items): the login gives a
\* token or is refused
authenticate(token) ==
  /\ request_pc = "idle"
  /\ auth_token' = token
  /\ UNCHANGED <<request_pc, retries, attempts, response, slept, cache_vars, engine_vars,
                 run_vars, ttl_vars, pages_fetched, writes>>

\* _make_request up to the loop
_make_request ==
  /\ request_pc \in {"idle", "returned"}
  /\ request_pc' = "loop"
  /\ retries' = 0
  /\ attempts' = 0
  /\ response' = 0
  /\ slept' = 0
  /\ UNCHANGED <<auth_token, cache_vars, engine_vars, run_vars, ttl_vars, pages_fetched,
                 writes>>

\* one round of the loop, the server answering with status; on 401 with a
\* token the client calls authenticate(), which returns (with a new token
\* or refused, the old token staying) or raises
Attempt(status, login) ==
  /\ request_pc = "loop"
  /\ attempts < MaxAttempts
  /\ attempts' = attempts + 1
  /\ IF status = 401 /\ auth_token
     THEN IF login = "raises"
          THEN ExceptClause /\ UNCHANGED auth_token
          ELSE UNCHANGED <<request_pc, retries, response, slept, auth_token>>
     ELSE IF status = 429
          THEN /\ slept' = slept + RateLimitWait(retries)
               /\ retries' = retries + 1
               /\ IF retries + 1 < MAX_RETRIES
                  THEN UNCHANGED <<request_pc, response>>
                  ELSE Return(500)
               /\ UNCHANGED auth_token
          ELSE /\ Return(status)
               /\ UNCHANGED <<retries, slept, auth_token>>
  /\ UNCHANGED <<cache_vars, engine_vars, run_vars, ttl_vars, pages_fetched, writes>>

\* one round of the loop, session.request raising (timeout, connection reset)
AttemptRaises ==
  /\ request_pc = "loop"
  /\ attempts < MaxAttempts
  /\ attempts' = attempts + 1
  /\ ExceptClause
  /\ UNCHANGED <<auth_token, cache_vars, engine_vars, run_vars, ttl_vars, pages_fetched,
                 writes>>

-----------------------------------------------------------------------------
(* The tender and item caches, whose entries live for an hour *)

SecondsPerTick == 1800
tender_cache_ttl == 3600
item_cache_ttl == 3600

\* _make_tender_key: f"{cnpj}_{year}_{sequential}", kept as its three parts
_make_tender_key(cnpj, year, sequential) == <<cnpj, year, sequential>>

\* the records a caller caches; ano or sequencial 0 stands for a missing key
TenderData ==
  {[cnpj |-> "46374500000119", ano |-> 2024, sequencial |-> n, objeto |-> "SERINGA"] :
     n \in {0, 1, 2}}
TenderKeys == {_make_tender_key("46374500000119", 2024, n) : n \in {1, 2}}
ItemLists == {<<>>, <<"SERINGA DESCARTAVEL CATMAT 651535">>}

None == [found |-> FALSE, value |-> <<>>]
Some(value) == [found |-> TRUE, value |-> value]
Read(op, key, returned) == [op |-> op, key |-> key, returned |-> returned]

\* the API client before its first request, and the engine before Stage 1
StartClient ==
  /\ request_pc = "idle"
  /\ retries = 0
  /\ attempts = 0
  /\ auth_token = FALSE
  /\ response = 0
  /\ slept = 0
  /\ pages_fetched = 0
  /\ writes = {}

StartTtl ==
  /\ time = 0
  /\ tender_cache = EmptyMap
  /\ item_cache = EmptyMap
  /\ last_read = Read("__init__", <<>>, None)

\* a test that serves an entry at the very moment its TTL has elapsed
IsFresh_Inclusive(timestamp, t, ttl) == (t - timestamp) * SecondsPerTick <= ttl

\* time.time() - entry['timestamp'] < ttl
IsFresh(timestamp, t, ttl) == (t - timestamp) * SecondsPerTick < ttl

cache_tender(tender_data) ==
  /\ tender_cache' =
       IF tender_data.cnpj # "" /\ tender_data.ano # 0 /\ tender_data.sequencial # 0
       THEN MapPut(tender_cache,
                   _make_tender_key(tender_data.cnpj, tender_data.ano, tender_data.sequencial),
                   [data |-> tender_data, timestamp |-> time])
       ELSE tender_cache
  /\ last_read' = Read("cache_tender", <<>>, None)
  /\ UNCHANGED <<time, item_cache, cache_vars, engine_vars, run_vars,
                 client_vars, pages_fetched, writes>>

get_cached_tender(cnpj, year, sequential) ==
  /\ \E key \in {_make_tender_key(cnpj, year, sequential)} :
       IF key \in DOMAIN tender_cache
       THEN IF IsFresh(tender_cache[key].timestamp, time, tender_cache_ttl)
            THEN /\ last_read' = Read("get_cached_tender", key, Some(tender_cache[key].data))
                 /\ UNCHANGED tender_cache
            ELSE /\ tender_cache' = MapRemove(tender_cache, key)
                 /\ last_read' = Read("get_cached_tender", key, None)
       ELSE /\ last_read' = Read("get_cached_tender", key, None)
            /\ UNCHANGED tender_cache
  /\ UNCHANGED <<time, item_cache, cache_vars, engine_vars, run_vars,
                 client_vars, pages_fetched, writes>>

cache_items(cnpj, year, sequential, items) ==
  /\ item_cache' = MapPut(item_cache, _make_tender_key(cnpj, year, sequential),
                          [items |-> items, timestamp |-> time])
  /\ last_read' = Read("cache_items", <<>>, None)
  /\ UNCHANGED <<time, tender_cache, cache_vars, engine_vars, run_vars,
                 client_vars, pages_fetched, writes>>

get_cached_items(cnpj, year, sequential) ==
  /\ \E key \in {_make_tender_key(cnpj, year, sequential)} :
       IF key \in DOMAIN item_cache
       THEN IF IsFresh(item_cache[key].timestamp, time, item_cache_ttl)
            THEN /\ last_read' = Read("get_cached_items", key, Some(item_cache[key].items))
                 /\ UNCHANGED item_cache
            ELSE /\ item_cache' = MapRemove(item_cache, key)
                 /\ last_read' = Read("get_cached_items", key, None)
       ELSE /\ last_read' = Read("get_cached_items", key, None)
            /\ UNCHANGED item_cache
  /\ UNCHANGED <<time, tender_cache, cache_vars, engine_vars, run_vars,
                 client_vars, pages_fetched, writes>>

\* half an hour passes between two calls
Elapse ==
  /\ time < MaxTime
  /\ time' = time + 1
  /\ last_read' = Read("clock", <<>>, None)
  /\ UNCHANGED <<tender_cache, item_cache, cache_vars, engine_vars, run_vars,
                 client_vars, pages_fetched, writes>>

-----------------------------------------------------------------------------
\* time passes between two calls
AdvanceClock(d) ==
  /\ clock_steps < MaxClockSteps
  /\ now' = now + d
  /\ clock_steps' = clock_steps + 1
  /\ last_call' = Call("clock", "", NoResult)
  /\ UNCHANGED <<medical_orgs, non_medical_orgs, cache_file, engine_vars, run_vars, ttl_vars,
                 client_vars, pages_fetched, writes>>

-----------------------------------------------------------------------------
(* TenderClassifier: quick scoring and CATMAT codes *)

\* the texts that occur in records and sampled items
RecordTexts ==
  {"", "Hospital das Clínicas", "Prefeitura Municipal", "Secretaria de Educação",
   "Santa Casa de Saúde", "Aquisição de gaze e luva",
   "Aquisição de material hospitalar e medicamento", "Seringa e cateter",
   "Seringa", "Transporte escolar e combustível", "Serviços gerais"}
ItemTexts ==
  {"", "SERINGA DESCARTAVEL CATMAT 651535", "LUVA DE PROCEDIMENTO", "PAPEL SULFITE A4"}

rejection_keywords ==
  <<"educacao", "educação", "escola", "ensino",
    "transporte", "onibus", "ônibus", "veiculo", "veículo",
    "obras", "pavimentacao", "pavimentação", "asfalto",
    "saneamento", "esgoto", "água", "agua",
    "iluminacao", "iluminação", "luminaria", "luminária",
    "informatica", "informática", "computador", "notebook",
    "mobiliario escolar", "mobiliário escolar",
    "merenda", "alimentacao escolar", "alimentação escolar",
    "uniforme escolar", "fardamento",
    "combustivel", "combustível", "gasolina", "diesel",
    "material de limpeza", "produto de limpeza">>

medical_org_keywords ==
  <<<<"hospital", 30>>, <<"saude", 25>>, <<"saúde", 25>>, <<"sus", 20>>,
    <<"clinica", 20>>, <<"clínica", 20>>, <<"santa casa", 25>>, <<"upa", 20>>,
    <<"samu", 20>>, <<"hemocentro", 25>>, <<"hemoderivados", 25>>,
    <<"maternidade", 20>>, <<"policlinica", 20>>, <<"policlínica", 20>>,
    <<"pronto socorro", 20>>, <<"pronto-socorro", 20>>,
    <<"ambulatorio", 15>>, <<"ambulatório", 15>>,
    <<"posto de saude", 15>>, <<"posto de saúde", 15>>,
    <<"vigilancia sanitaria", 20>>, <<"vigilância sanitária", 20>>>>

medical_object_keywords ==
  <<<<"medicamento", 25>>, <<"medico", 20>>, <<"médico", 20>>, <<"hospitalar", 20>>,
    <<"cirurgico", 20>>, <<"cirúrgico", 20>>, <<"laboratorio", 15>>,
    <<"laboratório", 15>>, <<"curativo", 25>>, <<"seringa", 20>>, <<"cateter", 20>>,
    <<"equipo", 20>>, <<"material penso", 20>>, <<"material médico", 25>>,
    <<"material hospitalar", 25>>, <<"insumo médico", 20>>,
    <<"equipamento médico", 20>>, <<"gaze", 15>>, <<"luva", 10>>,
    <<"máscara", 10>>, <<"mascara", 10>>>>

\* sum(1 for kw in keywords if kw in text_lower)
CountKeywords(keywords, text_lower) ==
  Cardinality({i \in 1..Len(keywords) : IsSubstring(Str[keywords[i]], text_lower)})

\* the points of the dictionary's keywords found in text_lower, summed
RECURSIVE SumPoints(_, _, _)
SumPoints(table, i, text_lower) ==
  IF i > Len(table) THEN 0
  ELSE (IF IsSubstring(Str[table[i][1]], text_lower) THEN table[i][2] ELSE 0)
       + SumPoints(table, i + 1, text_lower)

Min(a, b) == IF a < b THEN a ELSE b
Max(a, b) == IF a > b THEN a ELSE b

\* per text: keyword hits of quick_medical_score
QuickTextFacts ==
  [s \in RecordTexts |->
     LET low == Lower(Str[s])
     IN  [rejections |-> CountKeywords(rejection_keywords, low),
          org_points |-> SumPoints(medical_org_keywords, 1, low),
          object_points |-> SumPoints(medical_object_keywords, 1, low)]]

\* quick_medical_score below the cache check: rejection keywords, keyword
\* points, value and modality adjustments
HeuristicScore(tender_data) ==
  LET org_name == tender_data.razaoSocial
      objeto == tender_data.objetoCompra
      homologated_value == tender_data.valorTotalHomologado
      score == QuickTextFacts[org_name].org_points
                 + QuickTextFacts[objeto].object_points
                 + (IF homologated_value > 50000 THEN 10
                    ELSE IF homologated_value > 100000 THEN 15 ELSE 0)
                 + (IF tender_data.modalidadeId \in {6, 8} THEN 5 ELSE 0)
  IN  IF QuickTextFacts[org_name].rejections > 0
      THEN [score |-> 0, should_reject |-> TRUE]
      ELSE IF QuickTextFacts[objeto].rejections >= 2
           THEN [score |-> 0, should_reject |-> TRUE]
           ELSE [score |-> Min(score, 100), should_reject |-> FALSE]

\* a quick_medical_score that takes a cache miss for a non-medical verdict
ScoreFromCache_MissRejects(cache_result, tender_data) ==
  IF cache_result.cached /\ cache_result.is_medical
  THEN [score |-> IntOf(cache_result.confidence), should_reject |-> FALSE]
  ELSE [score |-> 0, should_reject |-> TRUE]

\* the decision of quick_medical_score once the cache has answered
ScoreFromCache(cache_result, tender_data) ==
  IF cache_result.cached
  THEN IF cache_result.is_medical
       THEN [score |-> IntOf(cache_result.confidence), should_reject |-> FALSE]
       ELSE [score |-> 0, should_reject |-> TRUE]
  ELSE HeuristicScore(tender_data)

\* quick_medical_score raises on a record whose orgaoEntidade is None
\* (AttributeError on .get), before the cache is looked at
QuickScoreRaises(tender_data) == tender_data.orgaoEntidade_is_null

\* quick_medical_score(tender_data, org_cache): score, verdict, the cache's
\* answer (absent too when the cache is not consulted) and the medical map
\* the lookup leaves
quick_medical_score(tender_data, use_cache, orgs, non_medical, t) ==
  LET cnpj == tender_data.cnpj
      consulted == use_cache /\ cnpj # ""
      cache_result == IF consulted THEN LookupResult(orgs, non_medical, t, cnpj)
                      ELSE NoResult
      verdict == ScoreFromCache(cache_result, tender_data)
  IN  [score |-> verdict.score, should_reject |-> verdict.should_reject,
       consulted |-> consulted, cache_result |-> cache_result,
       orgs |-> IF consulted THEN LookupEvict(orgs, t, cnpj) ELSE orgs]

Whitespace == {" ", "\t", "\n"}
Letters == DOMAIN UpperToLower \cup {UpperToLower[c] : c \in DOMAIN UpperToLower}
IsWordChar(c) == c \in Digits \/ c \in Letters \/ c = "_"

\* the number of consecutive digits of cs from position i on
RECURSIVE DigitRun(_, _)
DigitRun(cs, i) ==
  IF i > Len(cs) \/ cs[i] \notin Digits THEN 0 ELSE 1 + DigitRun(cs, i + 1)

\* the first position from i on that holds none of the characters of skip
RECURSIVE SkipChars(_, _, _)
SkipChars(cs, i, skip) ==
  IF i > Len(cs) \/ cs[i] \notin skip THEN i ELSE SkipChars(cs, i + 1, skip)

\* the codes matched by  <word><skip>*(\d{lo,hi})  with re.IGNORECASE;
\* hi = 0 stands for an unbounded repetition
PrefixedCodes(cs, word, skip, lo, hi) ==
  LET low == Lower(cs)
      w == Str[word]
      starts == {i \in 1..Len(cs) : /\ i + Len(w) - 1 <= Len(cs)
                                     /\ SubSeq(low, i, i + Len(w) - 1) = w}
      codeAt(i) == LET j == SkipChars(cs, i + Len(w), skip)
                       run == DigitRun(cs, j)
                       n == IF hi > 0 /\ run > hi THEN hi ELSE run
                   IN  IF run >= lo THEN <<SubSeq(cs, j, j + n - 1)>> ELSE <<>>
  IN  {codeAt(i)[1] : i \in {k \in starts : codeAt(k) # <<>>}}

\* the codes matched by  \b(65\d{2,6})\b
StandaloneCodes(cs) ==
  LET starts == {i \in 1..Len(cs) :
                   /\ i + 1 <= Len(cs) /\ SubSeq(cs, i, i + 1) = Str["65"]
                   /\ (i = 1 \/ ~IsWordChar(cs[i - 1]))
                   /\ DigitRun(cs, i) >= 4 /\ DigitRun(cs, i) <= 8
                   /\ (i + DigitRun(cs, i) > Len(cs)
                       \/ ~IsWordChar(cs[i + DigitRun(cs, i)]))}
  IN  {SubSeq(cs, i, i + DigitRun(cs, i) - 1) : i \in starts}

\* extract_catmat_codes, as the set of codes found
extract_catmat_codes(text) ==
  IF text = "" THEN {}
  ELSE LET cs == Str[text]
       IN  PrefixedCodes(cs, "catmat", Whitespace \cup {":"}, 4, 8)
           \cup PrefixedCodes(cs, "br", Whitespace, 7, 0)
           \cup PrefixedCodes(cs, "código", Whitespace \cup {":"}, 4, 8)
           \cup PrefixedCodes(cs, "classe", Whitespace \cup {":"}, 4, 8)
           \cup PrefixedCodes(cs, "classf", Whitespace \cup {":"}, 4, 8)
           \cup PrefixedCodes(cs, "classificação", Whitespace \cup {":"}, 4, 8)
           \cup StandaloneCodes(cs)

\* is_medical_catmat: code.startswith('65')
is_medical_catmat(code) ==
  Len(code) >= 2 /\ SubSeq(code, 1, 2) = Str["65"]

-----------------------------------------------------------------------------
(* OptimizedTenderDiscovery: records, configuration, annotations *)

\* a record of the listing; "" and 0 stand for a missing key or None.
\* orgaoEntidade_is_null: the key orgaoEntidade is there and holds None;
\* itens_malformed: the list under itens holds an entry that is not a dict.
\* id is the identity of the dict object, not one of its keys.
Tender(id, k, control, pncp) ==
  [id |-> id, cnpj |-> k.cnpj, orgaoEntidade_cnpj |-> k.orgao_cnpj,
   orgaoEntidade_is_null |-> k.orgao_null, itens_malformed |-> k.itens_malformed,
   numeroControlePNCP |-> pncp,
   razaoSocial |-> k.razaoSocial, objetoCompra |-> k.objetoCompra,
   valorTotalHomologado |-> k.valor, modalidadeId |-> k.modalidadeId,
   numeroControlePNCPCompra |-> control, ano |-> k.ano, sequencial |-> k.sequencial]

\* the control numbers the registry hands out, one per listing position
ControlNumbers ==
  <<"cn-1", "cn-2", "cn-3", "cn-4", "cn-5", "cn-6", "cn-7", "cn-8", "cn-9", "cn-10",
    "cn-11", "cn-12", "cn-13">>
\* the control numbers the listing carries under numeroControlePNCP
PNCPNumbers ==
  <<"pn-1", "pn-2", "pn-3", "pn-4", "pn-5", "pn-6", "pn-7", "pn-8", "pn-9", "pn-10",
    "pn-11", "pn-12", "pn-13">>

\* the kinds of record a listing returns
RecordKinds ==
  { [cnpj |-> "46.374.500/0001-19", orgao_cnpj |-> "",
     razaoSocial |-> "Hospital das Clínicas", objetoCompra |-> "Aquisição de gaze e luva",
     valor |-> 60000, modalidadeId |-> 6, has_control |-> TRUE, ano |-> 2024, sequencial |-> 1,
     has_pncp |-> TRUE, orgao_null |-> FALSE, itens_malformed |-> FALSE],
    [cnpj |-> "", orgao_cnpj |-> "12.345.678/0001-99",
     razaoSocial |-> "Prefeitura Municipal", objetoCompra |-> "Aquisição de gaze e luva",
     valor |-> 60000, modalidadeId |-> 6, has_control |-> TRUE, ano |-> 2024, sequencial |-> 2,
     has_pncp |-> TRUE, orgao_null |-> FALSE, itens_malformed |-> FALSE],
    [cnpj |-> "12.345.678/0001-99", orgao_cnpj |-> "12.345.678/0001-99",
     razaoSocial |-> "Prefeitura Municipal", objetoCompra |-> "Seringa e cateter",
     valor |-> 3000, modalidadeId |-> 8, has_control |-> TRUE, ano |-> 2024, sequencial |-> 3,
     has_pncp |-> TRUE, orgao_null |-> FALSE, itens_malformed |-> FALSE],
    [cnpj |-> "", orgao_cnpj |-> "12.345.678/0001-99",
     razaoSocial |-> "Prefeitura Municipal", objetoCompra |-> "Transporte escolar e combustível",
     valor |-> 150000, modalidadeId |-> 6, has_control |-> TRUE, ano |-> 2024, sequencial |-> 4,
     has_pncp |-> TRUE, orgao_null |-> FALSE, itens_malformed |-> FALSE],
    [cnpj |-> "46374500000119", orgao_cnpj |-> "46374500000119",
     razaoSocial |-> "Secretaria de Educação", objetoCompra |-> "Seringa",
     valor |-> 60000, modalidadeId |-> 4, has_control |-> TRUE, ano |-> 2024, sequencial |-> 5,
     has_pncp |-> TRUE, orgao_null |-> FALSE, itens_malformed |-> FALSE],
    [cnpj |-> "", orgao_cnpj |-> "",
     razaoSocial |-> "Santa Casa de Saúde", objetoCompra |-> "Serviços gerais",
     valor |-> 3000000, modalidadeId |-> 4, has_control |-> FALSE, ano |-> 0, sequencial |-> 0,
     has_pncp |-> FALSE, orgao_null |-> FALSE, itens_malformed |-> FALSE] }

\* the record of kind k at position i of the listing
TenderOfKind(k, i) ==
  Tender(i, k, IF k.has_control THEN ControlNumbers[i] ELSE "",
         IF k.has_pncp THEN PNCPNumbers[i] ELSE "")

\* ProcessingConfig: value bounds (max 0 is None) and whether the
\* organization cache is used
Configs ==
  { [min_tender_value |-> 5000, max_tender_value |-> 2000000, use_org_cache |-> TRUE],
    [min_tender_value |-> 0, max_tender_value |-> 0, use_org_cache |-> TRUE],
    [min_tender_value |-> 0, max_tender_value |-> 0, use_org_cache |-> FALSE] }

NoConfidence == [num |-> -1, den |-> 1]
NoScore == -1

\* the keys the stages add to a record
NoAnnotation ==
  [quick_filter_score |-> NoScore, medical_confidence |-> NoConfidence,
   auto_approved |-> FALSE, approval_reason |-> <<>>,
   has_sample_items |-> FALSE, sample_items |-> <<>>, classified |-> FALSE]

\* tender.get('orgaoEntidade', {}).get('cnpj', '') or tender.get('cnpj', '')
TenderCnpj(tender) ==
  IF tender.orgaoEntidade_cnpj # "" THEN tender.orgaoEntidade_cnpj ELSE tender.cnpj

\* the ids of a list of records, as a set
Ids(list) == {list[i] : i \in 1..Len(list)}

-----------------------------------------------------------------------------
(* Stage 2: quick filter *)

PassThreshold == 30

\* value filters that forget the maximum
WithinValueBounds_NoMax(cfg, homologated_value) ==
  ~(homologated_value < cfg.min_tender_value)

\* the value filters of _stage2_quick_filter
WithinValueBounds(cfg, homologated_value) ==
  /\ ~(homologated_value < cfg.min_tender_value)
  /\ ~(cfg.max_tender_value # 0 /\ homologated_value > cfg.max_tender_value)

\* the score that admits a record to Stage 3
PassesThreshold(score) == score >= PassThreshold

\* one pass of the body of the for loop of _stage2_quick_filter over tender,
\* q being what quick_medical_score answered; acc carries filtered, the
\* annotations, both caches and the log of decisions
Stage2Step(acc, tender, cfg, q) ==
  LET entry == [id |-> tender.id, raised |-> FALSE, consulted |-> q.consulted,
                cache_result |-> q.cache_result,
                score |-> q.score, should_reject |-> q.should_reject]
      base == [acc EXCEPT !.orgs = q.orgs, !.log = Append(@, entry)]
  IN  IF q.should_reject
      THEN [base EXCEPT !.non_medical_cache = @ \cup {_normalize_cnpj(TenderCnpj(tender))}]
      ELSE IF ~WithinValueBounds(cfg, tender.valorTotalHomologado)
      THEN base
      ELSE IF PassesThreshold(q.score)
      THEN [base EXCEPT !.filtered = Append(@, tender.id),
                        !.annot[tender.id].quick_filter_score = q.score]
      ELSE base

\* an except clause that forgets to count the error
Stage2Except_Uncounted(acc, tender) ==
  [acc EXCEPT !.log = Append(@, [id |-> tender.id, raised |-> TRUE, consulted |-> FALSE,
                                 cache_result |-> NoResult, score |-> NoScore,
                                 should_reject |-> FALSE])]

\* the except clause of the loop: the error is counted, the record left out
Stage2Except(acc, tender) ==
  [acc EXCEPT !.errors = @ + 1,
              !.log = Append(@, [id |-> tender.id, raised |-> TRUE, consulted |-> FALSE,
                                 cache_result |-> NoResult, score |-> NoScore,
                                 should_reject |-> FALSE])]

\* the for loop of _stage2_quick_filter, from position i of list on
RECURSIVE Stage2Loop(_, _, _, _, _, _)
Stage2Loop(all, list, i, cfg, t, acc) ==
  IF i > Len(list) THEN acc
  ELSE Stage2Loop(all, list, i + 1, cfg, t,
         IF QuickScoreRaises(all[list[i]])
         THEN Stage2Except(acc, all[list[i]])
         ELSE Stage2Step(acc, all[list[i]], cfg,
                quick_medical_score(all[list[i]], cfg.use_org_cache, acc.orgs,
                                    non_medical_orgs, t)))

\* list.sort(key=..., reverse=True): stable, highest key first
RECURSIVE InsertByScore(_, _, _)
InsertByScore(sorted, id, key) ==
  IF sorted = <<>> THEN <<id>>
  ELSE IF key[Head(sorted)] >= key[id]
       THEN <<Head(sorted)>> \o InsertByScore(Tail(sorted), id, key)
       ELSE <<id>> \o sorted

\* a sort that leaves the list as it is
SortByScore_Unsorted(list, key) == list

RECURSIVE SortByScore(_, _)
SortByScore(list, key) ==
  IF list = <<>> THEN <<>>
  ELSE InsertByScore(SortByScore(SubSeq(list, 1, Len(list) - 1), key),
                     list[Len(list)], key)

\* x.get('quick_filter_score', 0)
ScoreKey(ann) ==
  [id \in DOMAIN ann |->
     IF ann[id].quick_filter_score = NoScore THEN 0 ELSE ann[id].quick_filter_score]

\* filtered.sort(key=lambda x: x.get('quick_filter_score', 0), reverse=True)
Stage2Sort(r) ==
  [r EXCEPT !.filtered = SortByScore(r.filtered, ScoreKey(r.annot))]

\* _stage2_quick_filter(list): the admitted records in order, and what the
\* run leaves in the annotations and the caches
Stage2Run(all, list, cfg, t, ann, orgs, non_medical_cache) ==
  Stage2Sort(Stage2Loop(all, list, 1, cfg, t,
               [filtered |-> <<>>, annot |-> ann, orgs |-> orgs,
                non_medical_cache |-> non_medical_cache, log |-> <<>>, errors |-> 0]))

_stage2_quick_filter ==
  /\ pc = "stage2"
  /\ \E r \in {Stage2Run(tenders, new_tenders, config, now,
                          annot, medical_orgs, non_medical_orgs_cache)} :
        /\ quick_filtered' = r.filtered
        /\ annot' = r.annot
        /\ medical_orgs' = r.orgs
        /\ non_medical_orgs_cache' = r.non_medical_cache
        /\ stage2_log' = r.log
        /\ metrics' = [metrics EXCEPT !.stage2_quick_filter.tenders_in = Len(new_tenders),
                                      !.stage2_quick_filter.errors = @ + r.errors,
                                      !.stage2_quick_filter.tenders_out = Len(r.filtered),
                                      !.stage2_quick_filter.api_calls = 0]
  /\ pc' = "stage3"
  /\ UNCHANGED <<now, clock_steps, non_medical_orgs, last_call, cache_file, run_vars,
                 ttl_vars, client_vars, pages_fetched, writes, config, tenders,
                 medical_orgs_cache, confirmed, needs_sampling, task, results,
                 batch_start, semaphore, api_calls>>

-----------------------------------------------------------------------------
(* Stage 3: smart sampling *)

strong_keywords ==
  <<"medicamento", "remedio", "remédio", "farmaco", "fármaco",
    "hospitalar", "hospital",
    "cirurgico", "cirúrgico", "cirurgia",
    "médico", "medico",
    "laboratorio", "laboratório", "exame",
    "equipamento médico", "material médico",
    "curativo", "seringa", "cateter", "equipo",
    "diagnostico", "diagnóstico",
    "tratamento", "terapia",
    "ambulancia", "ambulância",
    "insumo médico", "insumo hospitalar",
    "material cirurgico", "material cirúrgico",
    "uti", "centro cirurgico", "centro cirúrgico",
    "pronto socorro", "pronto-socorro",
    "radiologia", "tomografia", "raio-x",
    "anestesia", "anestésico">>

StrongKeywordCounts ==
  [s \in RecordTexts |-> CountKeywords(strong_keywords, Lower(Str[s]))]

_count_medical_keywords_in_object(objeto) ==
  IF objeto = "" THEN 0 ELSE StrongKeywordCounts[objeto]

DigitChars == <<"0", "1", "2", "3", "4", "5", "6", "7", "8", "9">>

\* str(n) for n >= 0, as characters
RECURSIVE DecimalChars(_)
DecimalChars(n) ==
  IF n < 10 THEN <<DigitChars[n + 1]>>
  ELSE DecimalChars(n \div 10) \o <<DigitChars[(n % 10) + 1]>>

\* a reason that leaves the keyword count out
ApprovalReason_NoKeywords(quick_score, medical_keyword_count) ==
  Str["score="] \o DecimalChars(quick_score)

\* f'score={quick_score}, keywords={medical_keyword_count}'
ApprovalReason(quick_score, medical_keyword_count) ==
  Str["score="] \o DecimalChars(quick_score)
    \o Str[", keywords="] \o DecimalChars(medical_keyword_count)

\* an auto-approval test that looks at the score only
AutoApproves_ScoreOnly(quick_score, medical_keyword_count) ==
  quick_score >= 70 \/ quick_score >= 80

\* the auto-approval test of phase 1
AutoApproves(quick_score, medical_keyword_count) ==
  quick_score >= 70 \/ medical_keyword_count >= 2 \/ quick_score >= 80

\* the confidence phase 1 gives an auto-approved record
AutoConfidence(quick_score, medical_keyword_count) ==
  Min(Max(quick_score, 60 + (medical_keyword_count * 10)), 95)

\* phase 1 over the list from position i on
RECURSIVE Phase1Loop(_, _, _, _)
Phase1Loop(all, list, i, acc) ==
  IF i > Len(list) THEN acc
  ELSE
    LET id == list[i]
        quick_score == ScoreKey(acc.annot)[id]
        medical_keyword_count == _count_medical_keywords_in_object(all[id].objetoCompra)
    IN  IF AutoApproves(quick_score, medical_keyword_count)
        THEN Phase1Loop(all, list, i + 1,
               [acc EXCEPT !.confirmed = Append(@, id),
                  !.annot[id].medical_confidence =
                     Rat(AutoConfidence(quick_score, medical_keyword_count)),
                  !.annot[id].auto_approved = TRUE,
                  !.annot[id].approval_reason =
                     ApprovalReason(quick_score, medical_keyword_count)])
        ELSE Phase1Loop(all, list, i + 1,
               [acc EXCEPT !.needs_sampling = Append(@, id)])

batch_size == 50
MaxConcurrentSamples == 5

\* how a sample_tender task ended: without a key to fetch by, with no items,
\* with an approval, with a rejection, or in the except clause
TaskEnded == {"skipped", "empty", "approved", "rejected", "failed"}

\* the positions of needs_sampling that form the batch starting at first
BatchOf(first, list) ==
  {j \in 1..Len(list) : first <= j /\ j < first + batch_size}

\* the first N items the registry returns for a record (max_items = 3)
SampleResponses ==
  { <<"SERINGA DESCARTAVEL CATMAT 651535">>,
    <<"LUVA DE PROCEDIMENTO">>,
    <<"SERINGA DESCARTAVEL CATMAT 651535", "LUVA DE PROCEDIMENTO", "PAPEL SULFITE A4">>,
    <<>> }

sample_medical_keywords ==
  <<"curativo", "seringa", "agulha", "cateter",
    "equipo", "luva", "mascara", "máscara", "gaze",
    "medicamento", "cirurgico", "cirúrgico", "esteril", "estéril">>

\* what one item adds to medical_indicators
ItemIndicators ==
  [d \in ItemTexts |->
     (IF \E code \in extract_catmat_codes(d) : is_medical_catmat(code) THEN 2 ELSE 0)
     + (IF CountKeywords(sample_medical_keywords, Lower(Str[d])) > 0 THEN 1 ELSE 0)]

RECURSIVE SumIndicators(_, _)
SumIndicators(items, i) ==
  IF i > Len(items) THEN 0 ELSE ItemIndicators[items[i]] + SumIndicators(items, i + 1)

\* _analyze_sample_items: (medical_indicators / total_checks) * 100
_analyze_sample_items(items) ==
  IF items = <<>> THEN Rat(0)
  ELSE [num |-> SumIndicators(items, 1) * 100, den |-> Len(items) * 2]

\* a write of a sample_tender task to state the tasks share: what it writes
\* and whether the statement stands inside  async with api_calls_lock
Write(target, locked) == [target |-> target, locked |-> locked]

\* the stage 3 loop of phase 1, then the first batch of sample tasks is created
Stage3Phase1 ==
  /\ pc = "stage3"
  /\ LET r == Phase1Loop(tenders, quick_filtered, 1,
                [confirmed |-> <<>>, needs_sampling |-> <<>>, annot |-> annot])
     IN  /\ confirmed' = r.confirmed
         /\ needs_sampling' = r.needs_sampling
         /\ annot' = r.annot
         /\ task' = [j \in 1..Len(r.needs_sampling) |->
                       IF j \in BatchOf(1, r.needs_sampling) THEN "created" ELSE "pending"]
         /\ results' = [j \in 1..Len(r.needs_sampling) |-> 0]
         /\ pc' = IF r.needs_sampling = <<>> THEN "stage3_phase3" ELSE "stage3_sampling"
  /\ batch_start' = 1
  /\ semaphore' = MaxConcurrentSamples
  /\ api_calls' = 0
  /\ writes' = {}
  /\ metrics' = [metrics EXCEPT !.stage3_smart_sampling.tenders_in = Len(quick_filtered)]
  /\ UNCHANGED <<cache_vars, ttl_vars, client_vars, pages_fetched, run_vars, config, tenders,
                 stage2_log, quick_filtered,
                 medical_orgs_cache, non_medical_orgs_cache>>

\* sample_tender up to the call of fetch_sample_items; tasks of a gather
\* start in the order they were created
SampleStart(j) ==
  /\ pc = "stage3_sampling"
  /\ j \in DOMAIN task /\ task[j] = "created"
  /\ \A k \in 1..(j - 1) : task[k] # "created"
  /\ semaphore > 0
  /\ LET tender == tenders[needs_sampling[j]]
     IN  IF TenderCnpj(tender) = "" \/ tender.ano = 0 \/ tender.sequencial = 0
         THEN /\ task' = [task EXCEPT ![j] = "skipped"]
              /\ UNCHANGED semaphore
         ELSE /\ task' = [task EXCEPT ![j] = "fetching"]
              /\ semaphore' = semaphore - 1
  /\ UNCHANGED <<cache_vars, ttl_vars, client_vars, pages_fetched, writes, run_vars, pc, config,
                 tenders, annot, stage2_log, quick_filtered,
                 medical_orgs_cache, non_medical_orgs_cache, confirmed, needs_sampling,
                 results, batch_start, api_calls, metrics>>

\* whether a sampled confidence approves the record, and whether it makes
\* the organization a medical one
SampleApproves(medical_confidence) == RatGT(medical_confidence, Rat(50))
SampleMarksMedical(medical_confidence) == RatGT(medical_confidence, Rat(70))

\* fetch_sample_items returns items: sample_tender runs to its end
SampleFetchReturns(j, sample_items) ==
  /\ pc = "stage3_sampling"
  /\ j \in DOMAIN task /\ task[j] = "fetching"
  /\ LET id == needs_sampling[j]
         cnpj_normalized == _normalize_cnpj(TenderCnpj(tenders[id]))
         medical_confidence == _analyze_sample_items(sample_items)
     IN  IF sample_items = <<>>
         THEN /\ task' = [task EXCEPT ![j] = "empty"]
              /\ writes' = writes \cup {Write("api_calls", TRUE)}
              /\ UNCHANGED <<annot, medical_orgs_cache, non_medical_orgs_cache, results>>
         ELSE IF SampleApproves(medical_confidence)
         THEN /\ task' = [task EXCEPT ![j] = "approved"]
              /\ annot' = [annot EXCEPT ![id].medical_confidence = medical_confidence,
                                        ![id].has_sample_items = TRUE,
                                        ![id].sample_items = sample_items]
              /\ medical_orgs_cache' =
                   IF config.use_org_cache /\ SampleMarksMedical(medical_confidence)
                   THEN medical_orgs_cache \cup {cnpj_normalized}
                   ELSE medical_orgs_cache
              /\ results' = [results EXCEPT ![j] = id]
              /\ writes' = writes \cup {Write("api_calls", TRUE)} \cup
                   (IF config.use_org_cache /\ SampleMarksMedical(medical_confidence)
                    THEN {Write("medical_orgs_cache", FALSE)} ELSE {})
              /\ UNCHANGED non_medical_orgs_cache
         ELSE /\ task' = [task EXCEPT ![j] = "rejected"]
              /\ non_medical_orgs_cache' = non_medical_orgs_cache \cup {cnpj_normalized}
              /\ writes' = writes \cup {Write("api_calls", TRUE),
                                         Write("non_medical_orgs_cache", FALSE)}
              /\ UNCHANGED <<annot, medical_orgs_cache, results>>
  /\ api_calls' = api_calls + 1
  /\ semaphore' = semaphore + 1
  /\ UNCHANGED <<cache_vars, ttl_vars, client_vars, pages_fetched, run_vars, pc, config,
                 tenders, stage2_log, quick_filtered,
                 confirmed, needs_sampling, batch_start, metrics>>

\* fetch_sample_items raises: the except clause counts the error
SampleFetchRaises(j) ==
  /\ pc = "stage3_sampling"
  /\ j \in DOMAIN task /\ task[j] = "fetching"
  /\ metrics' = [metrics EXCEPT !.stage3_smart_sampling.errors = @ + 1]
  /\ writes' = writes \cup {Write("errors", FALSE)}
  /\ task' = [task EXCEPT ![j] = "failed"]
  /\ semaphore' = semaphore + 1
  /\ UNCHANGED <<cache_vars, ttl_vars, client_vars, pages_fetched, run_vars, pc, config,
                 tenders, annot, stage2_log, quick_filtered,
                 medical_orgs_cache, non_medical_orgs_cache, confirmed, needs_sampling,
                 results, batch_start, api_calls>>

\* [r for r in results if r is not None], in task order
RECURSIVE NotNone(_, _, _)
NotNone(res, first, last) ==
  IF first > last THEN <<>>
  ELSE (IF res[first] # 0 THEN <<res[first]>> ELSE <<>>) \o NotNone(res, first + 1, last)

\* asyncio.gather of a batch returns; the next batch starts, or phase 2 ends
GatherBatch ==
  /\ pc = "stage3_sampling"
  /\ \A j \in BatchOf(batch_start, needs_sampling) : task[j] \in TaskEnded
  /\ confirmed' = confirmed \o NotNone(results, batch_start,
                     Min(batch_start + batch_size - 1, Len(needs_sampling)))
  /\ IF batch_start + batch_size <= Len(needs_sampling)
     THEN /\ batch_start' = batch_start + batch_size
          /\ task' = [j \in DOMAIN task |->
                        IF j \in BatchOf(batch_start + batch_size, needs_sampling)
                        THEN "created" ELSE task[j]]
          /\ pc' = pc
     ELSE /\ pc' = "stage3_phase3"
          /\ UNCHANGED <<batch_start, task>>
  /\ UNCHANGED <<cache_vars, ttl_vars, client_vars, pages_fetched, writes, run_vars, config,
                 tenders, annot, stage2_log, quick_filtered,
                 medical_orgs_cache, non_medical_orgs_cache, needs_sampling,
                 results, semaphore, api_calls, metrics>>

\* org_tender_counts[cnpj]: the approved records of the organization
OrgTenderCount(all, approved, cnpj) ==
  Cardinality({i \in 1..Len(approved) :
                 _normalize_cnpj(TenderCnpj(all[approved[i]])) = cnpj})

\* an organization trusted after a single approved record
TrustedOrg_Once(count) == count >= 1

\* the count of approved records that makes an organization trusted
TrustedOrg(count) == count >= 2

\* the control numbers of the approved records that have one
ConfirmedControlNumbers(all, approved) ==
  {all[approved[i]].numeroControlePNCPCompra : i \in 1..Len(approved)} \ {""}

\* the loop of phase 3 over remaining_from_sampling, from position i on
RECURSIVE Phase3Loop(_, _, _, _, _)
Phase3Loop(all, remaining, i, counts_from, acc) ==
  IF i > Len(remaining) THEN acc
  ELSE
    LET id == remaining[i]
        cnpj == _normalize_cnpj(TenderCnpj(all[id]))
    IN  IF TrustedOrg(OrgTenderCount(all, counts_from, cnpj))
        THEN Phase3Loop(all, remaining, i + 1, counts_from,
               [acc EXCEPT !.confirmed = Append(@, id),
                  !.annot[id].medical_confidence = Rat(75),
                  !.annot[id].auto_approved = TRUE,
                  !.annot[id].approval_reason = Str["org_history"]])
        ELSE Phase3Loop(all, remaining, i + 1, counts_from, acc)

\* phase 3 and the metrics update that ends _stage3_smart_sampling
Stage3Phase3 ==
  /\ pc = "stage3_phase3"
  /\ LET numbers == ConfirmedControlNumbers(tenders, confirmed)
         remaining_from_sampling ==
           SelectSeq(needs_sampling,
                     LAMBDA id : tenders[id].numeroControlePNCPCompra \notin numbers)
         r == Phase3Loop(tenders, remaining_from_sampling, 1, confirmed,
                         [confirmed |-> confirmed, annot |-> annot])
     IN  /\ confirmed' = r.confirmed
         /\ annot' = r.annot
         /\ metrics' = [metrics EXCEPT
                          !.stage3_smart_sampling.tenders_out = Len(r.confirmed),
                          !.stage3_smart_sampling.api_calls = api_calls]
  /\ pc' = "stage3_done"
  /\ UNCHANGED <<cache_vars, ttl_vars, client_vars, pages_fetched, writes, run_vars, config,
                 tenders, stage2_log, quick_filtered,
                 medical_orgs_cache, non_medical_orgs_cache, needs_sampling,
                 task, results, batch_start, semaphore, api_calls>>

-----------------------------------------------------------------------------
(* Stage 1 and deduplication *)

\* Stage 4 before it has started
NoStage4 ==
  [groups |-> <<>>, g |-> 0, task |-> <<>>, results |-> <<>>, semaphore |-> 0,
   api_calls |-> 0]

\* the locals of the stage methods, as a new invocation finds them
FreshLocals ==
  /\ stage2_log' = <<>>
  /\ quick_filtered' = <<>>
  /\ confirmed' = <<>>
  /\ needs_sampling' = <<>>
  /\ task' = <<>>
  /\ results' = <<>>
  /\ batch_start' = 1
  /\ semaphore' = MaxConcurrentSamples
  /\ api_calls' = 0
  /\ new_tenders' = <<>>
  /\ processed' = <<>>
  /\ stage4' = NoStage4
  /\ writes' = {}

\* _load_cached_organizations: set(self.org_cache.get_medical_orgs_by_state(state))
LoadedOrganizations(cfg, orgs, state, loaded) ==
  IF cfg.use_org_cache THEN get_medical_orgs_by_state(orgs, state) ELSE loaded

\* an except clause that returns [] without counting the error
Stage1Except_Uncounted(m) == m

\* the except clause of _stage1_bulk_fetch
Stage1Except(m) == [m EXCEPT !.stage1_bulk_fetch.errors = @ + 1]

\* discover_medical_tenders_optimized up to the end of Stage 1, the listing
\* fetch returning the records of kinds l
Stage1FetchReturns(l) ==
  /\ pc = "start"
  /\ medical_orgs_cache' = LoadedOrganizations(config, medical_orgs, "SP", medical_orgs_cache)
  /\ tenders' = [i \in 1..Len(l) |-> TenderOfKind(l[i], i)]
  /\ annot' = [i \in 1..Len(l) |-> NoAnnotation]
  /\ raw_tenders' = [i \in 1..Len(l) |-> i]
  /\ metrics' = [metrics EXCEPT !.stage1_bulk_fetch.tenders_in = 0,
                                !.stage1_bulk_fetch.tenders_out = Len(l),
                                !.stage1_bulk_fetch.api_calls = 1]
  /\ pages_fetched' \in 1..MaxPages
  /\ FreshLocals
  /\ pc' = "dedup"
  /\ UNCHANGED <<cache_vars, ttl_vars, client_vars, config, non_medical_orgs_cache,
                 existing_control_numbers,
                 invocations>>

\* the same, the listing fetch raising: Stage 1 returns []
Stage1FetchRaises ==
  /\ pc = "start"
  /\ medical_orgs_cache' = LoadedOrganizations(config, medical_orgs, "SP", medical_orgs_cache)
  /\ tenders' = <<>>
  /\ annot' = <<>>
  /\ raw_tenders' = <<>>
  /\ metrics' = Stage1Except(metrics)
  /\ pages_fetched' = 0
  /\ FreshLocals
  /\ pc' = "dedup"
  /\ UNCHANGED <<cache_vars, ttl_vars, client_vars, config, non_medical_orgs_cache,
                 existing_control_numbers,
                 invocations>>

\* filter_new_tenders: the control numbers it asks the database about
FetchedControlNumbers(all, fetched_tenders) ==
  {all[fetched_tenders[i]].numeroControlePNCP : i \in 1..Len(fetched_tenders)} \ {""}

\* a filter that returns the records the database holds
NewTenders_Persisted(all, fetched_tenders, existing) ==
  SelectSeq(fetched_tenders, LAMBDA id : all[id].numeroControlePNCP \in existing)

\* filter_new_tenders: [t for t in fetched_tenders
\*                      if t.get('numeroControlePNCP') not in existing_set]
NewTenders(all, fetched_tenders, existing) ==
  SelectSeq(fetched_tenders, LAMBDA id : all[id].numeroControlePNCP \notin existing)

\* filter_new_tenders(fetched_tenders), the database answering
filter_new_tenders(all, fetched_tenders, table) ==
  IF fetched_tenders = <<>> THEN <<>>
  ELSE IF FetchedControlNumbers(all, fetched_tenders) = {} THEN fetched_tenders
  ELSE NewTenders(all, fetched_tenders,
                  table \cap FetchedControlNumbers(all, fetched_tenders))

\* whether filter_new_tenders opens a database connection at all
AsksDatabase(all, fetched_tenders) ==
  fetched_tenders # <<>> /\ FetchedControlNumbers(all, fetched_tenders) # {}

\* deduplication returns
Deduplicate ==
  /\ pc = "dedup"
  /\ new_tenders' = filter_new_tenders(tenders, raw_tenders, existing_control_numbers)
  /\ pc' = "stage2"
  /\ pages_fetched' = 0
  /\ UNCHANGED <<cache_vars, ttl_vars, client_vars, writes, config, tenders, annot, stage2_log,
                 quick_filtered,
                 medical_orgs_cache, non_medical_orgs_cache, confirmed, needs_sampling,
                 task, results, batch_start, semaphore, api_calls, metrics,
                 existing_control_numbers, raw_tenders, stage4, processed, invocations>>

\* the database fails (get_connection or fetch raises): nothing catches the
\* exception, discover_medical_tenders_optimized raises
DeduplicateRaises ==
  /\ pc = "dedup"
  /\ AsksDatabase(tenders, raw_tenders)
  /\ pc' = "raised"
  /\ pages_fetched' = 0
  /\ UNCHANGED <<cache_vars, ttl_vars, client_vars, writes, config, tenders, annot, stage2_log,
                 quick_filtered,
                 medical_orgs_cache, non_medical_orgs_cache, confirmed, needs_sampling,
                 task, results, batch_start, semaphore, api_calls, metrics, run_vars>>

-----------------------------------------------------------------------------
(* Stage 4: full processing *)

\* the priority groups, in the order they are processed
GroupNames == <<"high", "medium", "low">>

InGroup(group_name, homologated_value) ==
  IF group_name = "high" THEN homologated_value > 100000
  ELSE IF group_name = "medium"
       THEN 10000 <= homologated_value /\ homologated_value <= 100000
       ELSE homologated_value < 10000

\* groups drawn from the whole listing instead of Stage 3's output
PriorityGroup_FromListing(all, list, group_name) ==
  SelectSeq([i \in DOMAIN all |-> i],
            LAMBDA id : InGroup(group_name, all[id].valorTotalHomologado))

\* [t for t in tenders if ...]
PriorityGroup(all, list, group_name) ==
  SelectSeq(list, LAMBDA id : InGroup(group_name, all[id].valorTotalHomologado))

\* a cap no group reaches
max_concurrent_Unbounded(group_name) == 100

\* max_concurrent = 10 if group_name == "high" else (5 if group_name == "medium" else 3)
max_concurrent(group_name) ==
  IF group_name = "high" THEN 10 ELSE (IF group_name = "medium" THEN 5 ELSE 3)

\* a loop that goes straight to the last group that is not empty
NextGroup_Last(groups, g) ==
  IF \E h \in (g + 1)..3 : groups[h] # <<>>
  THEN CHOOSE h \in (g + 1)..3 : groups[h] # <<>> /\ \A x \in (h + 1)..3 : groups[x] = <<>>
  ELSE 4

\* the first group after position g that is not empty; 4 if there is none
NextGroup(groups, g) ==
  IF \E h \in (g + 1)..3 : groups[h] # <<>>
  THEN CHOOSE h \in (g + 1)..3 : groups[h] # <<>> /\ \A x \in (g + 1)..(h - 1) : groups[x] = <<>>
  ELSE 4

\* the tasks of group g are created, with a semaphore of their own
StartGroup(st, g) ==
  IF g = 4 THEN [st EXCEPT !.g = 4, !.task = <<>>, !.results = <<>>]
  ELSE [st EXCEPT !.g = g,
                  !.task = [j \in 1..Len(st.groups[g]) |-> "created"],
                  !.results = [j \in 1..Len(st.groups[g]) |-> 0],
                  !.semaphore = max_concurrent(GroupNames[g])]

\* the metrics update that ends _stage4_full_processing
Stage4Metrics(m, done, calls) ==
  [m EXCEPT !.stage4_full_processing.tenders_out = Len(done),
            !.stage4_full_processing.api_calls = calls]

\* _stage4_full_processing up to the first gather (or to its return, with no
\* record to process)
Stage4Begin ==
  /\ pc = "stage3_done"
  /\ \E groups \in {[h \in 1..3 |-> PriorityGroup(tenders, confirmed, GroupNames[h])]} :
       /\ stage4' = StartGroup([NoStage4 EXCEPT !.groups = groups], NextGroup(groups, 0))
       /\ pc' = IF NextGroup(groups, 0) = 4 THEN "returned" ELSE "stage4"
       /\ metrics' =
            IF NextGroup(groups, 0) = 4
            THEN Stage4Metrics([metrics EXCEPT
                                  !.stage4_full_processing.tenders_in = Len(confirmed)],
                               <<>>, 0)
            ELSE [metrics EXCEPT !.stage4_full_processing.tenders_in = Len(confirmed)]
  /\ processed' = <<>>
  /\ UNCHANGED <<cache_vars, ttl_vars, client_vars, pages_fetched, writes, config, tenders,
                 annot, stage2_log, quick_filtered,
                 medical_orgs_cache, non_medical_orgs_cache, confirmed, needs_sampling,
                 task, results, batch_start, semaphore, api_calls,
                 existing_control_numbers, raw_tenders, new_tenders, invocations>>

\* process_tender enters  async with semaphore ; the tasks of a gather start
\* in the order they were created
ProcessStart(j) ==
  /\ pc = "stage4"
  /\ j \in DOMAIN stage4.task /\ stage4.task[j] = "created"
  /\ \A k \in 1..(j - 1) : stage4.task[k] # "created"
  /\ stage4.semaphore > 0
  /\ stage4' = [stage4 EXCEPT !.task[j] = "running", !.semaphore = @ - 1]
  /\ UNCHANGED <<cache_vars, ttl_vars, client_vars, pages_fetched, writes, engine_vars,
                 existing_control_numbers, raw_tenders,
                 new_tenders, processed, invocations>>

\* classify_tender raises on a record whose itens are not dicts
\* (AttributeError on item.get)
ClassifyRaises(tender_data) == tender_data.itens_malformed

\* api_calls += 0 with cached sample items, += 1 without
FullFetchCalls(ann) == IF ann.has_sample_items THEN 0 ELSE 1

\* the body of process_tender and the release of the semaphore
ProcessEnd(j) ==
  /\ pc = "stage4"
  /\ j \in DOMAIN stage4.task /\ stage4.task[j] = "running"
  /\ \E id \in {stage4.groups[stage4.g][j]} :
       IF ClassifyRaises(tenders[id])
       THEN /\ metrics' = [metrics EXCEPT !.stage4_full_processing.errors = @ + 1]
            /\ stage4' = [stage4 EXCEPT !.task[j] = "failed",
                            !.api_calls = @ + FullFetchCalls(annot[id]),
                            !.semaphore = @ + 1]
            /\ UNCHANGED annot
       ELSE /\ annot' = [annot EXCEPT ![id].classified = TRUE]
            /\ stage4' = [stage4 EXCEPT !.task[j] = "done", !.results[j] = id,
                            !.api_calls = @ + FullFetchCalls(annot[id]),
                            !.semaphore = @ + 1]
            /\ UNCHANGED metrics
  /\ UNCHANGED <<cache_vars, ttl_vars, client_vars, pages_fetched, writes, pc, config, tenders,
                 stage2_log, quick_filtered,
                 medical_orgs_cache, non_medical_orgs_cache, confirmed, needs_sampling,
                 task, results, batch_start, semaphore, api_calls,
                 existing_control_numbers, raw_tenders, new_tenders, processed,
                 invocations>>

\* the gather of a group returns: the next group starts, or the stage and
\* discover_medical_tenders_optimized return
GatherGroup ==
  /\ pc = "stage4"
  /\ \A j \in DOMAIN stage4.task : stage4.task[j] \in {"done", "failed"}
  /\ \E done \in {processed \o NotNone(stage4.results, 1, Len(stage4.results))} :
       /\ processed' = done
       /\ stage4' = StartGroup(stage4, NextGroup(stage4.groups, stage4.g))
       /\ IF NextGroup(stage4.groups, stage4.g) = 4
          THEN /\ metrics' = Stage4Metrics(metrics, done, stage4.api_calls)
               /\ pc' = "returned"
          ELSE UNCHANGED <<metrics, pc>>
  /\ UNCHANGED <<cache_vars, ttl_vars, client_vars, pages_fetched, writes, config, tenders,
                 annot, stage2_log, quick_filtered,
                 medical_orgs_cache, non_medical_orgs_cache, confirmed, needs_sampling,
                 task, results, batch_start, semaphore, api_calls,
                 existing_control_numbers, raw_tenders, new_tenders, invocations>>

\* the caller invokes discover_medical_tenders_optimized again, for the next state
NextInvocation ==
  /\ pc = "returned"
  /\ invocations < MaxInvocations
  /\ invocations' = invocations + 1
  /\ pc' = "start"
  /\ UNCHANGED <<cache_vars, ttl_vars, client_vars, pages_fetched, writes, config, tenders,
                 annot, stage2_log, quick_filtered,
                 medical_orgs_cache, non_medical_orgs_cache, confirmed, needs_sampling,
                 task, results, batch_start, semaphore, api_calls, metrics,
                 existing_control_numbers, raw_tenders, new_tenders, stage4, processed>>

-----------------------------------------------------------------------------
(* Specifications *)

MaxTenders == 3

StageMetrics == [tenders_in |-> 0, tenders_out |-> 0, api_calls |-> 0, errors |-> 0]
DiscoveryMetrics ==
  [stage1_bulk_fetch |-> StageMetrics, stage2_quick_filter |-> StageMetrics,
   stage3_smart_sampling |-> StageMetrics, stage4_full_processing |-> StageMetrics]

\* the time a run starts at: a day past the maximum age after the clock's origin
RunTime == (cache_max_age_days + 1) * TicksPerDay

StaleEntry(cnpj) ==
  CachedOrganization(cnpj, "Hospital das Clínicas", "SP", [num |-> 171, den |-> 2], 0)
FreshEntry(cnpj, confidence) ==
  CachedOrganization(cnpj, "Hospital das Clínicas", "SP", confidence, RunTime)

\* what the organization cache holds when a run starts
StartCaches ==
  { [medical_orgs |-> EmptyMap, non_medical_orgs |-> {}],
    [medical_orgs |-> MapPut(EmptyMap, "46374500000119", StaleEntry("46374500000119")),
     non_medical_orgs |-> {}],
    [medical_orgs |-> MapPut(EmptyMap, "12345678000199",
                             FreshEntry("12345678000199", [num |-> 171, den |-> 2])),
     non_medical_orgs |-> {}],
    [medical_orgs |-> MapPut(EmptyMap, "12345678000199",
                             FreshEntry("12345678000199", Rat(20))),
     non_medical_orgs |-> {}],
    [medical_orgs |-> EmptyMap, non_medical_orgs |-> {"12345678000199"}],
    [medical_orgs |-> MapPut(EmptyMap, "12345678000199", StaleEntry("12345678000199")),
     non_medical_orgs |-> {"12345678000199"}] }

\* the listings a run may receive: up to MaxTenders records of any kinds
Listings ==
  UNION {[1..n -> RecordKinds] : n \in 1..MaxTenders}

\* the engine is constructed and is handed the new records of a listing
Init ==
  /\ StartTtl
  /\ StartClient
  /\ now = RunTime
  /\ clock_steps = MaxClockSteps
  /\ \E c \in StartCaches, cfg \in Configs :
       /\ (~cfg.use_org_cache => c.medical_orgs = EmptyMap /\ c.non_medical_orgs = {})
       /\ medical_orgs = c.medical_orgs
       /\ non_medical_orgs = c.non_medical_orgs
       /\ config = cfg
       /\ medical_orgs_cache =
            IF cfg.use_org_cache THEN get_medical_orgs_by_state(c.medical_orgs, "SP") ELSE {}
  /\ last_call = Call("__init__", "", NoResult)
  /\ cache_file = NoFile
  /\ \E l \in Listings : tenders = [i \in 1..Len(l) |-> TenderOfKind(l[i], i)]
  /\ annot = [i \in 1..Len(tenders) |-> NoAnnotation]
  /\ existing_control_numbers = {}
  /\ raw_tenders = [i \in 1..Len(tenders) |-> i]
  /\ new_tenders = [i \in 1..Len(tenders) |-> i]
  /\ stage4 = NoStage4
  /\ processed = <<>>
  /\ invocations = 1
  /\ pc = "stage2"
  /\ stage2_log = <<>>
  /\ quick_filtered = <<>>
  /\ non_medical_orgs_cache = {}
  /\ confirmed = <<>>
  /\ needs_sampling = <<>>
  /\ task = <<>>
  /\ results = <<>>
  /\ batch_start = 1
  /\ semaphore = MaxConcurrentSamples
  /\ api_calls = 0
  /\ metrics = DiscoveryMetrics

Next ==
  \/ _stage2_quick_filter
  \/ Stage3Phase1
  \/ \E j \in 1..MaxTenders : SampleStart(j)
  \/ \E j \in 1..MaxTenders, items \in SampleResponses : SampleFetchReturns(j, items)
  \/ \E j \in 1..MaxTenders : SampleFetchRaises(j)
  \/ GatherBatch
  \/ Stage3Phase3

Spec == Init /\ [][Next]_vars

\* the cache on its own: constructed empty, then any sequence of its operations
InitCache ==
  /\ StartTtl
  /\ StartClient
  /\ now = 0
  /\ clock_steps = 0
  /\ medical_orgs = EmptyMap
  /\ non_medical_orgs = {}
  /\ last_call = Call("__init__", "", NoResult)
  /\ cache_file = NoFile
  /\ pc = "idle"
  /\ config = CHOOSE cfg \in Configs : cfg.use_org_cache /\ cfg.max_tender_value # 0
  /\ tenders = <<>>
  /\ existing_control_numbers = {}
  /\ raw_tenders = <<>>
  /\ new_tenders = <<>>
  /\ stage4 = NoStage4
  /\ processed = <<>>
  /\ invocations = 0
  /\ annot = <<>>
  /\ stage2_log = <<>>
  /\ quick_filtered = <<>>
  /\ medical_orgs_cache = {}
  /\ non_medical_orgs_cache = {}
  /\ confirmed = <<>>
  /\ needs_sampling = <<>>
  /\ task = <<>>
  /\ results = <<>>
  /\ batch_start = 1
  /\ semaphore = MaxConcurrentSamples
  /\ api_calls = 0
  /\ metrics = DiscoveryMetrics

NextCache ==
  \/ \E c \in RawCnpjs : is_cached_medical_org(c)
  \/ \E c \in RawCnpjs, n \in OrgNames, s \in StateCodes, conf \in RecordedConfidences :
        add_medical_organization(c, n, s, conf)
  \/ \E c \in RawCnpjs : add_non_medical_organization(c)
  \/ \E c \in RawCnpjs : increment_tender_count(c)
  \/ clear_expired_entries
  \/ \E d \in ClockAdvances : AdvanceClock(d)

SpecCache == InitCache /\ [][NextCache]_vars


\* the cache and its file: any sequence of lookups, writes, saves and loads,
\* the callers naming one organization by its formatted and its bare identifier
RestoreCnpjs == {"46.374.500/0001-19", "46374500000119"}

NextRestore ==
  \/ \E c \in RestoreCnpjs : is_cached_medical_org(c)
  \/ \E c \in RestoreCnpjs, n \in OrgNames, s \in StateCodes :
        add_medical_organization(c, n, s, Rat(20))
  \/ \E c \in RestoreCnpjs : add_non_medical_organization(c)
  \/ \E c \in RestoreCnpjs : increment_tender_count(c)
  \/ save_cache
  \/ save_cache_fails
  \/ load_cache
  \/ __init__

SpecRestore == InitCache /\ [][NextRestore]_vars

\* the tender and item caches: any sequence of writes and reads of two
\* keys, half an hour passing now and then
NextTtl ==
  \/ \E tender_data \in TenderData : cache_tender(tender_data)
  \/ \E key \in TenderKeys : get_cached_tender(key[1], key[2], key[3])
  \/ \E key \in TenderKeys, items \in ItemLists : cache_items(key[1], key[2], key[3], items)
  \/ \E key \in TenderKeys : get_cached_items(key[1], key[2], key[3])
  \/ Elapse

SpecTtl == InitCache /\ [][NextTtl]_vars

\* the API client: any sequence of requests, the server and the login
\* answering as they please
NextRequest ==
  \/ \E token \in BOOLEAN : authenticate(token)
  \/ _make_request
  \/ \E status \in Statuses, login \in {"returns", "raises"} : Attempt(status, login)
  \/ AttemptRaises

SpecRequest == InitCache /\ [][NextRequest]_vars

\* the record kind of RecordKinds with the given sequential number
KindOf(n) == CHOOSE k \in RecordKinds : k.sequencial = n

\* a record whose orgaoEntidade is null
NullOrgaoKind ==
  [cnpj |-> "", orgao_cnpj |-> "",
   razaoSocial |-> "", objetoCompra |-> "Seringa",
   valor |-> 60000, modalidadeId |-> 6, has_control |-> TRUE, ano |-> 2024, sequencial |-> 7,
   has_pncp |-> TRUE, orgao_null |-> TRUE, itens_malformed |-> FALSE]

\* a hospital's record of high value
HighValueKind ==
  [cnpj |-> "46.374.500/0001-19", orgao_cnpj |-> "",
   razaoSocial |-> "Hospital das Clínicas",
   objetoCompra |-> "Aquisição de material hospitalar e medicamento",
   valor |-> 150000, modalidadeId |-> 6, has_control |-> TRUE, ano |-> 2024, sequencial |-> 8,
   has_pncp |-> TRUE, orgao_null |-> FALSE, itens_malformed |-> FALSE]

\* the same with items that are not dicts, and no control number
MalformedItensKind ==
  [HighValueKind EXCEPT !.sequencial = 9, !.has_pncp = FALSE, !.itens_malformed = TRUE]

\* a record as the listing gives it, with numeroControlePNCP and without
\* numeroControlePNCPCompra
ListedKind == [KindOf(2) EXCEPT !.has_control = FALSE, !.sequencial = 10]

\* a whole invocation: the records a listing may hold, the settings and the
\* control numbers the tenders table may hold
RunKinds == {KindOf(1), KindOf(2), KindOf(4), NullOrgaoKind, MalformedItensKind}
RunListings == UNION {[1..n -> RunKinds] : n \in 1..MaxRunTenders}
RunConfigs == {cfg \in Configs : cfg.max_tender_value # 0 \/ ~cfg.use_org_cache}
PersistedNumbers == {{}, {"pn-2"}, {"pn-1", "pn-3"}}

\* the engine is constructed; discover_medical_tenders_optimized is called
InitInvocation(cfgs, tables, first) ==
  /\ StartTtl
  /\ StartClient
  /\ now = RunTime
  /\ clock_steps = MaxClockSteps
  /\ medical_orgs = EmptyMap
  /\ non_medical_orgs = {}
  /\ last_call = Call("__init__", "", NoResult)
  /\ cache_file = NoFile
  /\ config \in cfgs
  /\ existing_control_numbers \in tables
  /\ pc = "start"
  /\ tenders = <<>>
  /\ annot = <<>>
  /\ raw_tenders = <<>>
  /\ new_tenders = <<>>
  /\ stage2_log = <<>>
  /\ quick_filtered = <<>>
  /\ medical_orgs_cache = {}
  /\ non_medical_orgs_cache = {}
  /\ confirmed = <<>>
  /\ needs_sampling = <<>>
  /\ task = <<>>
  /\ results = <<>>
  /\ batch_start = 1
  /\ semaphore = MaxConcurrentSamples
  /\ api_calls = 0
  /\ metrics = DiscoveryMetrics
  /\ stage4 = NoStage4
  /\ processed = <<>>
  /\ invocations = first

\* the steps of an invocation from the end of Stage 1 on, the registry
\* answering a sample request with one of responses
Stages(responses) ==
  \/ Deduplicate
  \/ DeduplicateRaises
  \/ _stage2_quick_filter
  \/ Stage3Phase1
  \/ \E j \in DOMAIN task : SampleStart(j)
  \/ \E j \in DOMAIN task, items \in responses : SampleFetchReturns(j, items)
  \/ \E j \in DOMAIN task : SampleFetchRaises(j)
  \/ GatherBatch
  \/ Stage3Phase3
  \/ Stage4Begin
  \/ \E j \in DOMAIN stage4.task : ProcessStart(j)
  \/ \E j \in DOMAIN stage4.task : ProcessEnd(j)
  \/ GatherGroup

InitRun == InitInvocation(RunConfigs, PersistedNumbers, MaxInvocations)

NextRun ==
  \/ \E l \in RunListings : Stage1FetchReturns(l)
  \/ Stage1FetchRaises
  \/ Stages(SampleResponses)

SpecRun == InitRun /\ [][NextRun]_vars

\* a listing with records of the three value tiers, in no order
MixedListing == <<KindOf(3), HighValueKind, KindOf(1), HighValueKind, KindOf(1)>>

\* listings of one kind of record, long enough to fill a semaphore: records
\* that need sampling, and records of high, medium and low value; and the
\* listing of the three tiers
TierListings ==
  {[i \in 1..n |-> KindOf(2)] : n \in 1..MaxSampled}
    \cup {[i \in 1..n |-> HighValueKind] : n \in 1..MaxHighValue}
    \cup {[i \in 1..n |-> KindOf(1)] : n \in 1..MaxMediumValue}
    \cup {[i \in 1..n |-> KindOf(3)] : n \in 1..MaxLowValue}
    \cup {MixedListing}
TierConfigs == {cfg \in Configs : cfg.max_tender_value = 0 /\ cfg.use_org_cache}
TierResponses == {<<"SERINGA DESCARTAVEL CATMAT 651535">>}

InitTiers == InitInvocation(TierConfigs, {{}}, MaxInvocations)

NextTiers ==
  \/ \E l \in TierListings : Stage1FetchReturns(l)
  \/ Stage1FetchRaises
  \/ Stages(TierResponses)

SpecTiers == InitTiers /\ [][NextTiers]_vars

\* one engine serving several invocations, as main.discover_tenders does for
\* the enabled states
PartitionListings ==
  {<<KindOf(2)>>, <<NullOrgaoKind, MalformedItensKind>>, <<ListedKind, ListedKind>>}
PartitionConfigs == {cfg \in Configs : cfg.max_tender_value # 0}

InitPartitions == InitInvocation(PartitionConfigs, {{}}, 1)

NextPartitions ==
  \/ \E l \in PartitionListings : Stage1FetchReturns(l)
  \/ Stage1FetchRaises
  \/ Stages(TierResponses)
  \/ NextInvocation

SpecPartitions == InitPartitions /\ [][NextPartitions]_vars

-----------------------------------------------------------------------------
(* Claims about the reputation cache *)

\* a step that performs is_cached_medical_org
IsLookupStep == last_call'.op = "is_cached_medical_org"

\* C1: an entry whose lastUpdated is older than the max-age (30 days) makes
\* the lookup return cache-absent, and the entry is gone from the medical map
\* after that read.
C1_StaleEntryAbsentAndEvicted ==
  [][IsLookupStep =>
       LET k == _normalize_cnpj(last_call'.cnpj)
       IN  (/\ k \in DOMAIN medical_orgs
            /\ now - medical_orgs[k].last_updated > cache_max_age_days * TicksPerDay)
           => (/\ last_call'.result = NoResult
               /\ k \notin DOMAIN medical_orgs')]_vars

\* the result the lookup order of the claim prescribes: a stale entry falls
\* through to the non-medical set and the seed table
FallThroughResult(orgs, non_medical, t, cnpj) ==
  LET cnpj_clean == _normalize_cnpj(cnpj)
  IN  IF /\ cnpj_clean \in DOMAIN orgs
         /\ AgeDays(orgs[cnpj_clean].last_updated, t) <= cache_max_age_days
      THEN Result(TRUE, orgs[cnpj_clean].medical_confidence)
      ELSE IF cnpj_clean \in non_medical
           THEN Result(FALSE, Rat(90))
           ELSE IF CnpjPrefix(cnpj_clean) \in known_medical_cnpjs
                THEN Result(TRUE, Rat(95))
                ELSE NoResult

\* C2: the lookup decides in the order fresh medical entry, (stale entry
\* evicted, falling through to) non-medical set, seed table on the first 8
\* digits, and returns absent only if none of these match.
C2_LookupOrderWithFallThrough ==
  [][IsLookupStep =>
       /\ last_call'.result =
            FallThroughResult(medical_orgs, non_medical_orgs, now, last_call'.cnpj)
       /\ LET k == _normalize_cnpj(last_call'.cnpj)
          IN  (k \in DOMAIN medical_orgs /\ k \notin DOMAIN medical_orgs')
                <=> (k \in DOMAIN medical_orgs
                     /\ AgeDays(medical_orgs[k].last_updated, now) > cache_max_age_days)]_vars


-----------------------------------------------------------------------------
(* Claims about the discovery engine *)

AfterStage2 == pc \in {"stage3", "stage3_sampling", "stage3_phase3", "stage3_done"}
AfterPhase1 == pc \in {"stage3_sampling", "stage3_phase3", "stage3_done"}

\* the records phase 1 approved: confirmed, and never handed to sampling
Phase1Approved == Ids(confirmed) \ Ids(needs_sampling)

\* C3: a cache miss is never treated as non-medical: a record whose lookup
\* returned absent gets the verdict and the score of the heuristics, and is
\* dropped by Stage 2 only if the heuristics reject it, its value is out of
\* bounds or its heuristic score is below the threshold.
C3_MissGoesToHeuristics ==
  \A i \in DOMAIN stage2_log :
    LET e == stage2_log[i]
        h == HeuristicScore(tenders[e.id])
    IN  (e.consulted /\ ~e.cache_result.cached) =>
          /\ e.should_reject = h.should_reject
          /\ e.score = h.score
          /\ (e.id \in Ids(quick_filtered)) <=>
               (/\ ~h.should_reject
                /\ tenders[e.id].valorTotalHomologado >= config.min_tender_value
                /\ (config.max_tender_value = 0
                    \/ tenders[e.id].valorTotalHomologado <= config.max_tender_value)
                /\ h.score >= 30)

\* a record was admitted after a miss, one of them after its stale entry was evicted
C3_Witness ==
  /\ pc = "stage3"
  /\ \E i \in DOMAIN stage2_log :
       /\ stage2_log[i].consulted /\ ~stage2_log[i].cache_result.cached
       /\ stage2_log[i].id \in Ids(quick_filtered)
       /\ medical_orgs = EmptyMap /\ medical_orgs_cache # {}

\* C4: Stage 3's verdicts are written to the reputation cache: once sampling
\* has approved a record with confidence > 70 a lookup of its organization
\* returns medical, and once sampling has rejected a record a lookup of its
\* organization returns non-medical.
C4_SamplingVerdictsReachCache ==
  (pc \in {"stage3_sampling", "stage3_phase3"} /\ config.use_org_cache) =>
    \A j \in DOMAIN task :
      LET tender == tenders[needs_sampling[j]]
          answer == LookupResult(medical_orgs, non_medical_orgs, now, TenderCnpj(tender))
      IN  /\ (/\ task[j] = "approved"
              /\ RatGT(annot[tender.id].medical_confidence, Rat(70)))
             => (answer.cached /\ answer.is_medical)
          /\ task[j] = "rejected" => (answer.cached /\ ~answer.is_medical)

\* C5: running Stage 2 again on its own output, with no cache write in
\* between, admits the same set of records with the same scores.
C5_Stage2Idempotent ==
  pc = "stage3" =>
    LET again == Stage2Run(tenders, quick_filtered, config, now, annot,
                           medical_orgs, non_medical_orgs_cache)
    IN  /\ Ids(again.filtered) = Ids(quick_filtered)
        /\ \A id \in Ids(quick_filtered) :
             again.annot[id].quick_filter_score = annot[id].quick_filter_score

\* C6: Stage 2's output is a subset of its input, each record at most once,
\* and every output record has a value within the configured bounds and a
\* score of at least 30.
C6_Stage2OutputAdmissible ==
  AfterStage2 =>
    /\ Ids(quick_filtered) \subseteq DOMAIN tenders
    /\ Cardinality(Ids(quick_filtered)) = Len(quick_filtered)
    /\ \A id \in Ids(quick_filtered) :
         /\ tenders[id].valorTotalHomologado >= config.min_tender_value
         /\ (config.max_tender_value # 0 =>
               tenders[id].valorTotalHomologado <= config.max_tender_value)
         /\ annot[id].quick_filter_score >= 30

\* Stage 2 admitted some records and dropped one for its value alone
C6_Witness ==
  /\ pc = "stage3"
  /\ quick_filtered # <<>>
  /\ \E i \in DOMAIN stage2_log :
       /\ ~stage2_log[i].should_reject
       /\ stage2_log[i].score >= 30
       /\ stage2_log[i].id \notin Ids(quick_filtered)

\* C7: Stage 2 returns the admitted records sorted by score descending: no
\* record is preceded by a record with a strictly lower score.
C7_Stage2SortedDescending ==
  AfterStage2 =>
    \A i, j \in DOMAIN quick_filtered :
      i < j => annot[quick_filtered[i]].quick_filter_score
                 >= annot[quick_filtered[j]].quick_filter_score

\* the sort moved a later record of the listing ahead of an earlier one
C7_Witness ==
  /\ pc = "stage3"
  /\ \E i, j \in DOMAIN quick_filtered :
       /\ i < j
       /\ quick_filtered[i] > quick_filtered[j]
       /\ annot[quick_filtered[i]].quick_filter_score
            > annot[quick_filtered[j]].quick_filter_score

-----------------------------------------------------------------------------
(* Claims about concurrency, errors and the order of the stages *)

InFlightSamples == Cardinality({j \in DOMAIN task : task[j] = "fetching"})
InFlightProcessing == Cardinality({j \in DOMAIN stage4.task : stage4.task[j] = "running"})

\* C11: at every moment at most 5 sample fetches of Stage 3 are in flight,
\* and the records being processed at once in a Stage 4 tier are at most the
\* tier's cap: 10 for high, 5 for medium, 3 for low.
C11_ConcurrencyWithinCaps ==
  /\ InFlightSamples <= 5
  /\ pc = "stage4" =>
       InFlightProcessing <= (IF stage4.g = 1 THEN 10 ELSE IF stage4.g = 2 THEN 5 ELSE 3)

\* the low tier runs at its cap while a fourth record waits for the semaphore
C11_Witness ==
  /\ pc = "stage4"
  /\ stage4.g = 3
  /\ InFlightProcessing = 3
  /\ stage4.semaphore = 0
  /\ \E j \in DOMAIN stage4.task : stage4.task[j] = "created"

AfterStage2OfRun ==
  pc \in {"stage3", "stage3_sampling", "stage3_phase3", "stage3_done", "stage4", "returned"}
AfterSampling == pc \in {"stage3_phase3", "stage3_done", "stage4", "returned"}
AfterStage3 == pc \in {"stage3_done", "stage4", "returned"}

\* the positions of needs_sampling whose sample_tender task ended in the except clause
FailedSamples == {j \in DOMAIN task : task[j] = "failed"}

\* what C12 says of Stage 2, of the sampling batches and of Stage 4: every
\* record is handled, the stage's counter holds the number of records that
\* raised, and a record that raised is not among what the step returns
ErrorsAreCountedAndLocal ==
  /\ AfterStage2OfRun =>
       /\ Len(stage2_log) = Len(new_tenders)
       /\ \A i \in DOMAIN new_tenders :
            /\ stage2_log[i].id = new_tenders[i]
            /\ stage2_log[i].raised = tenders[new_tenders[i]].orgaoEntidade_is_null
            /\ stage2_log[i].raised => new_tenders[i] \notin Ids(quick_filtered)
       /\ metrics.stage2_quick_filter.errors =
            Cardinality({i \in DOMAIN new_tenders :
                           tenders[new_tenders[i]].orgaoEntidade_is_null})
  /\ AfterSampling =>
       /\ \A j \in DOMAIN task : task[j] \in TaskEnded
       /\ \A j \in FailedSamples : results[j] = 0
       /\ metrics.stage3_smart_sampling.errors = Cardinality(FailedSamples)
  /\ pc = "returned" =>
       /\ \A i \in DOMAIN confirmed :
            IF tenders[confirmed[i]].itens_malformed
            THEN confirmed[i] \notin Ids(processed)
            ELSE confirmed[i] \in Ids(processed) /\ annot[confirmed[i]].classified
       /\ metrics.stage4_full_processing.errors =
            Cardinality({i \in DOMAIN confirmed : tenders[confirmed[i]].itens_malformed})
  /\ pc = "raised" => stage2_log = <<>> /\ metrics.stage2_quick_filter.tenders_in = 0

C13_StagesOnlyNarrow ==
  /\ Ids(new_tenders) \subseteq Ids(raw_tenders)
  /\ Ids(quick_filtered) \subseteq Ids(new_tenders)
  /\ Ids(confirmed) \subseteq Ids(quick_filtered)
  /\ Ids(processed) \subseteq Ids(confirmed)

\* a run returned a record, having left out one record at deduplication,
\* one at Stage 2 and one at Stage 4
C13_Witness ==
  /\ pc = "returned"
  /\ processed # <<>>
  /\ Len(new_tenders) < Len(raw_tenders)
  /\ Len(quick_filtered) < Len(new_tenders)

-----------------------------------------------------------------------------
(* Claims about the range of scores and the error counters *)

\* C14: for every record at every point of a run, the Stage 2 score and the
\* confidence assigned by any Stage 3 phase (auto-approval, item sampling,
\* organization history) lie in [0, 100].
C14_ScoresWithinRange ==
  \A id \in DOMAIN annot :
    /\ annot[id].quick_filter_score # NoScore =>
         annot[id].quick_filter_score \in 0..100
    /\ annot[id].medical_confidence # NoConfidence =>
         /\ ~RatGT(Rat(0), annot[id].medical_confidence)
         /\ ~RatGT(annot[id].medical_confidence, Rat(100))

\* the errors of each stage in the invocation that has just returned: the
\* listing fetch that raised, the records of Stage 2 and Stage 4 that raised,
\* the sample fetches that raised
ErrorsOfInvocation ==
  [stage1_bulk_fetch |-> IF raw_tenders = <<>> THEN 1 ELSE 0,
   stage2_quick_filter |-> Cardinality({i \in DOMAIN stage2_log : stage2_log[i].raised}),
   stage3_smart_sampling |-> Cardinality(FailedSamples),
   stage4_full_processing |->
     Cardinality({i \in DOMAIN confirmed : tenders[confirmed[i]].itens_malformed})]

\* C15: the metrics an invocation returns hold, for each stage, the number
\* of errors that occurred in that stage during that invocation, also when
\* the same engine processes several partitions one after another.
C15_MetricsOfInvocation ==
  pc = "returned" =>
    \A stage \in DOMAIN ErrorsOfInvocation :
      metrics[stage].errors = ErrorsOfInvocation[stage]

-----------------------------------------------------------------------------
(* Claims about failing collaborators and deduplication *)

\* C16: discover_medical_tenders_optimized never raises: when the listing
\* fetch, the deduplication store, the classifier or the sample fetch
\* fails, the invocation still returns a list and the metrics.
C16_NeverRaises == pc # "raised"

\* C17: if the listing fetch raises in Stage 1 the exception is not
\* propagated: Stage 1 returns an empty list and its error counter is
\* incremented by one (a fetch that returns leaves the counter alone).
C17_FailedFetchYieldsEmptyList ==
  [][pc = "start" =>
       /\ pc' = "dedup"
       /\ IF raw_tenders' = <<>>
          THEN metrics'.stage1_bulk_fetch.errors = metrics.stage1_bulk_fetch.errors + 1
          ELSE metrics'.stage1_bulk_fetch.errors = metrics.stage1_bulk_fetch.errors]_vars

\* the listing fetch raised and the invocation went on to deduplication
\* with an empty list
C17_Witness ==
  /\ pc = "dedup"
  /\ raw_tenders = <<>>
  /\ metrics.stage1_bulk_fetch.errors = 1

\* the positions of the batch whose identifier the database already holds
AlreadyPersisted ==
  {i \in DOMAIN raw_tenders :
     tenders[raw_tenders[i]].numeroControlePNCP \in existing_control_numbers}

PositionIn(list, id) == CHOOSE k \in DOMAIN list : list[k] = id

\* C18: filter_new_tenders applied to a batch of N records of which K carry
\* already-persisted identifiers returns exactly the N-K other records in
\* their input order; an empty batch returns empty and a batch of only new
\* identifiers is returned whole.
C18_FilterNewReturnsTheOthers ==
  [][pc = "dedup" /\ pc' = "stage2" =>
       /\ Len(new_tenders') = Len(raw_tenders) - Cardinality(AlreadyPersisted)
       /\ Ids(new_tenders') =
            {raw_tenders[i] : i \in DOMAIN raw_tenders \ AlreadyPersisted}
       /\ \A i, j \in DOMAIN new_tenders' :
            i < j => PositionIn(raw_tenders, new_tenders'[i])
                       < PositionIn(raw_tenders, new_tenders'[j])
       /\ raw_tenders = <<>> => new_tenders' = <<>>
       /\ AlreadyPersisted = {} => new_tenders' = raw_tenders]_vars

\* of a batch of three records the database held the first and the third:
\* the second alone went on to Stage 2
C18_Witness ==
  /\ pc = "stage2"
  /\ Len(raw_tenders) = 3
  /\ Cardinality(AlreadyPersisted) = 2
  /\ new_tenders = <<raw_tenders[2]>>

-----------------------------------------------------------------------------
(* Claims about the entries of the medical map *)

\* a key made of digits alone
DigitsOnly(k) == k \in DOMAIN Str /\ \A i \in DOMAIN Str[k] : Str[k][i] \in Digits

\* C19: after any sequence of writes, increments, lookups, saves and loads
\* the medical map holds at most one entry per normalized (digits-only)
\* identifier: every key is a digits-only identifier filed under itself, so
\* two identifiers with the same digits refer to the same entry.
C19_OneEntryPerIdentifier ==
  /\ \A k \in DOMAIN medical_orgs : DigitsOnly(k) /\ medical_orgs[k].cnpj = k
  /\ Cardinality(DOMAIN medical_orgs) <= 1

\* the organization, recorded and saved, is in the map after a load, under
\* its digits
C19_Witness ==
  /\ last_call.op = "load_cache"
  /\ cache_file.readable
  /\ DOMAIN cache_file.medical_orgs = {"46374500000119"}
  /\ DOMAIN medical_orgs = {"46374500000119"}

\* C20: an existing entry of the medical map is updated on later hits by
\* count increment and confidence refresh: while an organization stays in
\* the map, its tender_count never decreases across
\* add_medical_organization and increment_tender_count calls.
C20_CountNeverDecreases ==
  [][last_call'.op \in {"add_medical_organization", "increment_tender_count"} =>
       \A k \in DOMAIN medical_orgs \cap DOMAIN medical_orgs' :
         medical_orgs'[k].tender_count >= medical_orgs[k].tender_count]_vars

-----------------------------------------------------------------------------
(* Claims about the cache file *)

C22_BadFileYieldsEmptyCache ==
  (last_call.op = "load_cache" /\ ~(cache_file.exists /\ cache_file.readable)) =>
    medical_orgs = EmptyMap /\ non_medical_orgs = {}

\* C30: after any sequence of writes, lookups and loads no organization
\* identifier is both in the medical map and in the non-medical set.
C30_MedicalAndNonMedicalDisjoint ==
  DOMAIN medical_orgs \cap non_medical_orgs = {}

\* the seconds an entry written at timestamp has lived
Lived(timestamp) == (time - timestamp) * SecondsPerTick

\* whether this step is a read of the map cache with the time limit ttl that
\* serves the entries still alive as stored and removes the expired one
ReadHonoursTtl(cache, cache_after, ttl, stored) ==
  \E key \in {last_read'.key} :
    /\ cache_after = [k \in {k \in DOMAIN cache : k # key \/ Lived(cache[k].timestamp) < ttl}
                       |-> cache[k]]
    /\ last_read'.returned =
         IF key \in DOMAIN cache /\ Lived(cache[key].timestamp) < ttl
         THEN Some(stored[key]) ELSE None

\* C23: get_cached_tender and get_cached_items never return an entry for
\* which now - insertion >= ttl: such a read returns None and removes the
\* entry from its map, while an entry read before its TTL has elapsed is
\* returned as stored (and every other entry stays).
C23_ReadsHonourTtl ==
  [][/\ last_read'.op = "get_cached_tender" =>
          ReadHonoursTtl(tender_cache, tender_cache', 3600,
                         [k \in DOMAIN tender_cache |-> tender_cache[k].data])
     /\ last_read'.op = "get_cached_items" =>
          ReadHonoursTtl(item_cache, item_cache', 3600,
                         [k \in DOMAIN item_cache |-> item_cache[k].items])]_vars

\* an hour after it was written an entry of the tender cache was asked for:
\* the read returned None and the entry is gone, the other key's entry stays
C23_Witness ==
  /\ last_read.op = "get_cached_tender"
  /\ last_read.returned = None
  /\ last_read.key \notin DOMAIN tender_cache
  /\ tender_cache # EmptyMap
  /\ time = 2

-----------------------------------------------------------------------------
(* Claims about the annotations and the output of Stage 3 *)

\* C25: annotations are additive and never contradicted: once a record has
\* been given a confidence and an approval verdict by one Stage 3 phase, no
\* later phase or stage of the same run lowers that confidence or replaces
\* its reason tag.
C25_AnnotationsNeverContradicted ==
  [][\A id \in DOMAIN annot \cap DOMAIN annot' :
       (tenders' = tenders /\ annot[id].medical_confidence # NoConfidence) =>
         /\ ~RatGT(annot[id].medical_confidence, annot'[id].medical_confidence)
         /\ annot[id].approval_reason # <<>> =>
              annot'[id].approval_reason = annot[id].approval_reason]_vars

\* C29: for any input batch, including records that carry no control
\* number, Stage 3's output contains each input record at most once, so its
\* tenders_out never exceeds its tenders_in.
C29_Stage3OutputHasNoDuplicates ==
  /\ Cardinality(Ids(confirmed)) = Len(confirmed)
  /\ pc = "stage3_done" =>
       metrics.stage3_smart_sampling.tenders_out <= metrics.stage3_smart_sampling.tenders_in

-----------------------------------------------------------------------------
(* Claims about the API client, the shared state of Stage 3 and the tiers *)

\* C24: after a successful Stage 1 its api_calls counter equals the number
\* of listing pages fetched for the partition.
C24_ApiCallsCountPages ==
  (pc = "dedup" /\ raw_tenders # <<>>) =>
    metrics.stage1_bulk_fetch.api_calls = pages_fetched

\* C26: every write of Stage 3's sampling tasks to shared state (the medical
\* and non-medical organization sets, the API-call counter, the error
\* counter) is made while holding the one lock.
C26_WritesUnderOneLock == \A w \in writes : w.locked

\* C28: every call of _make_request ends after at most MAX_RETRIES
\* attempts, whatever the server answers.
C28_AttemptsBounded == attempts <= MAX_RETRIES

\* the tier of a homologated value: 1 high, 2 medium, 3 low
ValueTier(v) == IF v > 100000 THEN 1 ELSE IF v >= 10000 THEN 2 ELSE 3

\* a record of Stage 4's input whose processing has ended
Finished(id) == id \in Ids(processed) \/ tenders[id].itens_malformed

\* C27: Stage 4 processes the value tiers strictly one after the other in
\* the order high, medium, low: no record of a later tier starts processing
\* before every record of the earlier tiers has finished.
C27_TiersInOrder ==
  pc = "stage4" =>
    \A j \in DOMAIN stage4.task :
      stage4.task[j] # "created" =>
        \A i \in DOMAIN confirmed :
          ValueTier(tenders[confirmed[i]].valorTotalHomologado)
            < ValueTier(tenders[stage4.groups[stage4.g][j]].valorTotalHomologado)
          => Finished(confirmed[i])

\* the record of low value is being processed, the two of high and the two
\* of medium value having been processed before it
C27_Witness ==
  /\ pc = "stage4"
  /\ Len(confirmed) = 5
  /\ Len(processed) = 4
  /\ \E j \in DOMAIN stage4.task :
       /\ stage4.task[j] = "running"
       /\ ValueTier(tenders[stage4.groups[stage4.g][j]].valorTotalHomologado) = 3

====
